---- MODULE Spec2Model ----
(***************************************************************************)
(* Utility ingestion and reconciliation engine of decosta.ca:              *)
(*   src/app/api/energy/ingest/route.ts  (the revision at lines 927-2294)  *)
(*   src/app/api/meter-parse/route.ts                                      *)
(*   src/db/migrations/002_energy_weather_report.sql                       *)
(*   src/lib/unit-utility-policy.ts, src/lib/meter-identifier-map.ts       *)
(*                                                                         *)
(* Time is counted in ticks of 1/TicksPerDay day, in Vancouver local time; *)
(* a calendar day is tick \div TicksPerDay.  Reading values are integers.  *)
(* Floating-point arithmetic of the source is modelled by exact rationals. *)
(***************************************************************************)
EXTENDS Integers, Sequences, FiniteSets, Bags, TLC

VARIABLES
    readings,     \* table meter_reading, in insertion order
    charges,      \* table utility_bill_charge, in insertion order
    report,       \* materialized view energy_weather_report (a bag of rows)
    req,          \* the in-flight HTTP requests: position and locals of each handler
    started,      \* number of requests accepted so far
    batch,        \* input of dedupeRedundantBilledUsageEntries (SpecDedupe)
    deduped,      \* its result (SpecDedupe)
    norm,         \* a call of normalizeMeterImageReadingValue (SpecNorm)
    cost,         \* a call of estimateCostForBuckets (SpecCost)
    daily,        \* the daily rows of a rebuild of energy_weather_report (SpecView)
    chosen        \* a call of chooseMappedMeterIdentifier (SpecChoose)

vars == <<readings, charges, report, req, started, batch, deduped, norm, cost, daily, chosen>>

---------------------------------------------------------------------------
(* Bounds of the model *)

TicksPerDay == 2
MaxTick == 2
MaxRequests == 2
MaxBatch == 3

(* Absent values (SQL null / JS null, undefined, unparsable) *)
NoTime == -1
NoDay == -1
NoBill == "<null>"
NoUnit == "<none>"
NoUtility == "<none>"
None == "<none>"

\* no call of the pure function has been made
NoCall == [stage |-> "none"]

Ticks == 0..MaxTick
DayOf(at) == at \div TicksPerDay

---------------------------------------------------------------------------
(* Generic helpers *)

Max2(a, b) == IF a >= b THEN a ELSE b
Min2(a, b) == IF a <= b THEN a ELSE b
Abs(a) == IF a >= 0 THEN a ELSE -a

RECURSIVE SumSeq(_)
SumSeq(s) == IF s = <<>> THEN 0 ELSE Head(s) + SumSeq(Tail(s))

RECURSIVE InsertByTime(_, _)
\* insert e into the sequence s, sorted by captured_at, behind every element
\* that is not later (Array.prototype.sort is stable)
InsertByTime(s, e) ==
    IF s = <<>> THEN <<e>>
    ELSE IF e.captured_at < Head(s).captured_at THEN <<e>> \o s
    ELSE <<Head(s)>> \o InsertByTime(Tail(s), e)

RECURSIVE SortByCapturedAt(_)
SortByCapturedAt(s) ==
    IF s = <<>> THEN <<>>
    ELSE InsertByTime(SortByCapturedAt(SubSeq(s, 1, Len(s) - 1)), s[Len(s)])

---------------------------------------------------------------------------
(* src/lib/unit-utility-policy.ts *)

UtilityTypes == {"electricity", "gas", "water"}

\* unitName.trim().toLowerCase() on the unit names of the model
TrimLower(name) ==
    CASE name \in {"House", "house", "HOUSE", " House "} -> "house"
      [] name \in {"Coach", "coach", "COACH", " Coach "} -> "coach"
      [] name \in {"Suite", "suite"} -> "suite"
      [] OTHER -> name

DEFAULT_ALLOWED == {"electricity", "gas", "water"}

getAllowedUtilitiesForUnitNameCoachGas(unitName) ==
    LET key == TrimLower(unitName) IN
    CASE key = "coach" -> {"electricity", "gas"}
      [] key = "suite" -> {"electricity"}
      [] key = "house" -> {"electricity", "gas"}
      [] OTHER -> DEFAULT_ALLOWED

getAllowedUtilitiesForUnitName(unitName) ==
    LET key == TrimLower(unitName) IN
    CASE key = "coach" -> {"electricity"}
      [] key = "suite" -> {"electricity"}
      [] key = "house" -> {"electricity", "gas"}
      [] OTHER -> DEFAULT_ALLOWED

isUtilityAllowedForUnit(unitName, utilityType) ==
    utilityType \in getAllowedUtilitiesForUnitName(unitName)

---------------------------------------------------------------------------
(* type ExtractedEntry (confidence, evidence and is_opening are carried   *)
(* through unread and left out)                                            *)

ExtractedEntry(kind, utility, at, value, runit, bill, pstart, pend) ==
    [entry_type    |-> kind,
     utility_type  |-> utility,
     captured_at   |-> at,
     reading_value |-> value,
     reading_unit  |-> runit,
     bill_id       |-> bill,
     period_start  |-> pstart,
     period_end    |-> pend]

---------------------------------------------------------------------------
(* Bill Deduplicator: dedupeRedundantBilledUsageEntries *)

AbsTolerance == 1
RelTolerancePct == 2

\* diff <= max(absTolerance, scale * 0.02), on integers
nearlyEqualWideRelative(a, b) ==
    LET diff == Abs(a - b)
        scale == Max2(Max2(Abs(a), Abs(b)), 1)
    IN  diff <= AbsTolerance \/ 100 * diff <= (RelTolerancePct + 1) * scale

nearlyEqual(a, b) ==
    LET diff == Abs(a - b)
        scale == Max2(Max2(Abs(a), Abs(b)), 1)
    IN  diff <= AbsTolerance \/ 100 * diff <= RelTolerancePct * scale

\* String(reading_unit || "").toLowerCase()
LowerUnit(u) ==
    CASE u \in {"kWh", "KWH", "kwh"} -> "kwh"
      [] u \in {"m3", "M3"} -> "m3"
      [] u \in {"GJ", "gj"} -> "gj"
      [] u = NoUnit -> ""
      [] OTHER -> u

\* (bill_id || null): the empty string and null are the same key
BillKey(b) == IF b = "" THEN NoBill ELSE b

DedupeCandidatesAnyUnit(entries, billed) ==
    SelectSeq(entries, LAMBDA read :
        /\ read.entry_type = "meter_read"
        /\ read.utility_type = billed.utility_type
        /\ BillKey(read.bill_id) = BillKey(billed.bill_id))

DedupeCandidates(entries, billed) ==
    SelectSeq(entries, LAMBDA read :
        /\ read.entry_type = "meter_read"
        /\ read.utility_type = billed.utility_type
        /\ LowerUnit(read.reading_unit) = LowerUnit(billed.reading_unit)
        /\ BillKey(read.bill_id) = BillKey(billed.bill_id))

\* the meter delta a billed entry is compared with: closing minus opening
\* read of the candidates sorted by captured_at
DedupeMeterDelta(candidates) ==
    LET sorted == SortByCapturedAt(candidates)
    IN  [opening |-> sorted[1].reading_value,
         closing |-> sorted[Len(sorted)].reading_value,
         delta   |-> sorted[Len(sorted)].reading_value - sorted[1].reading_value]

\* the billed entry at position i is dropped
DedupeRedundant(entries, i) ==
    /\ entries[i].entry_type = "billed_usage"
    /\ LET candidates == DedupeCandidates(entries, entries[i]) IN
       /\ Len(candidates) >= 2
       /\ LET m == DedupeMeterDelta(candidates) IN
          /\ m.delta >= 0
          /\ nearlyEqual(entries[i].reading_value, m.delta)

RECURSIVE DedupeKept(_, _)
\* entries.filter(entry => keptSet.has(entry)), from position i on
DedupeKept(entries, i) ==
    IF i > Len(entries) THEN <<>>
    ELSE (IF DedupeRedundant(entries, i) THEN <<>> ELSE <<entries[i]>>)
         \o DedupeKept(entries, i + 1)

RECURSIVE DedupeRemoved(_, _)
DedupeRemoved(entries, i) ==
    IF i > Len(entries) THEN <<>>
    ELSE (IF DedupeRedundant(entries, i)
          THEN <<[bill_id       |-> entries[i].bill_id,
                  utility_type  |-> entries[i].utility_type,
                  reading_unit  |-> entries[i].reading_unit,
                  reading_value |-> entries[i].reading_value,
                  reason        |-> DedupeMeterDelta(DedupeCandidates(entries, entries[i]))]>>
          ELSE <<>>)
         \o DedupeRemoved(entries, i + 1)

dedupeRedundantBilledUsageEntries(entries) ==
    IF Len(entries) <= 1
    THEN [entries |-> entries, removed |-> <<>>]
    ELSE [entries |-> DedupeKept(entries, 1), removed |-> DedupeRemoved(entries, 1)]

---------------------------------------------------------------------------
(* Exact rational arithmetic for the Reading Normalizer: [n |-> , d |-> ]  *)
(* with d > 0, in lowest terms                                              *)

RECURSIVE GCD(_, _)
GCD(a, b) == IF b = 0 THEN a ELSE GCD(b, a % b)

Rat(n, d) ==
    LET g == GCD(Abs(n), Abs(d))
        sgn == IF d < 0 THEN -1 ELSE 1
    IN  [n |-> sgn * (n \div g), d |-> sgn * (d \div g)]

RInt(i) == [n |-> i, d |-> 1]

\* the operations divide by common factors before they multiply, and the
\* comparisons compare the integer parts first, to keep the products small
RAddOver(a, b, g) == Rat(a.n * (b.d \div g) + b.n * (a.d \div g), (a.d \div g) * b.d)
RAdd(a, b) == RAddOver(a, b, GCD(a.d, b.d))
RSub(a, b) == RAdd(a, [n |-> -b.n, d |-> b.d])
RMulOver(a, b, g1, g2) ==
    Rat((a.n \div g1) * (b.n \div g2), (a.d \div g2) * (b.d \div g1))
RMul(a, b) == RMulOver(a, b, GCD(Abs(a.n), b.d), GCD(Abs(b.n), a.d))
RDiv(a, b) == RMul(a, Rat(b.d, b.n))
RLe(a, b) ==
    \/ a.n \div a.d < b.n \div b.d
    \/ /\ a.n \div a.d = b.n \div b.d
       /\ (a.n % a.d) * b.d <= (b.n % b.d) * a.d
RLt(a, b) == ~RLe(b, a)
RMax(a, b) == IF RLe(b, a) THEN a ELSE b
RMin(a, b) == IF RLe(a, b) THEN a ELSE b
RAbs(a) == [n |-> Abs(a.n), d |-> a.d]

---------------------------------------------------------------------------
(* Reading Normalizer *)

DailyCeilingElectricity == 250
DailyCeilingGas == 80
DailyCeilingWater == 20

getMaxReasonableDailyUsage(utilityType) ==
    CASE utilityType = "electricity" -> DailyCeilingElectricity
      [] utilityType = "gas" -> DailyCeilingGas
      [] utilityType = "water" -> DailyCeilingWater
      [] OTHER -> DailyCeilingElectricity

WindowElectricity == 12
WindowGas == 18
WindowWater == 12

getRollingWindowSize(utilityType) ==
    CASE utilityType = "electricity" -> WindowElectricity
      [] utilityType = "gas" -> WindowGas
      [] utilityType = "water" -> WindowWater
      [] OTHER -> WindowElectricity

RECURSIVE DecimalLength(_)
\* String(n).length of a non-negative integer
DecimalLength(n) == IF n < 10 THEN 1 ELSE 1 + DecimalLength(n \div 10)

\* String(raw).length: the sign counts
StringLength(raw) == DecimalLength(Abs(raw)) + (IF raw < 0 THEN 1 ELSE 0)

\* Number(rawStr.slice(0, -k))
StripDigits(raw, k) ==
    LET p == IF k = 1 THEN 10 ELSE 100
    IN  IF raw >= 0 THEN raw \div p ELSE -(Abs(raw) \div p)

\* a variant builder that also drops the last three digits
buildMeterReadVariantsStripThree(raw) ==
    <<raw>> \o (IF StringLength(raw) >= 4
                THEN <<StripDigits(raw, 1), StripDigits(StripDigits(raw, 1), 2)>>
                ELSE <<>>)

\* the variants in insertion order of the Set, without repetition
buildMeterReadVariants(raw) ==
    LET strip1 == IF StringLength(raw) >= 4 THEN <<StripDigits(raw, 1)>> ELSE <<>>
        strip2 == IF StringLength(raw) >= 5 THEN <<StripDigits(raw, 2)>> ELSE <<>>
    IN  <<raw>> \o strip1 \o strip2

MinElapsedDays == Rat(1, 24)

ElapsedDays(fromAt, toAt) == RMax(Rat(toAt - fromAt, TicksPerDay), MinElapsedDays)

\* weightedRates.push({ rate, weight }) unless the delta is negative
AddWeightedRate(rest, delta, days, recencyWeight) ==
    IF delta < 0 THEN rest
    ELSE <<RAdd(RMul(RDiv(RInt(delta), days), RInt(recencyWeight)), rest[1]),
           recencyWeight + rest[2]>>

RECURSIVE WeightedRates(_, _)
\* the weighted rates of the intervals i, i+1, ... of the history (newest first):
\* <<sum of rate * weight, sum of weights>>
WeightedRates(recent, i) ==
    IF i >= Len(recent) THEN <<RInt(0), 0>>
    ELSE AddWeightedRate(WeightedRates(recent, i + 1),
                         recent[i].reading_value - recent[i + 1].reading_value,
                         ElapsedDays(recent[i + 1].captured_at, recent[i].captured_at),
                         Max2(Len(recent) - (i - 1), 1))

\* allowedDeltaLow and allowedDeltaHigh around the expected delta
ExpectedBand(prevValue, elapsedDays, maxReasonableDelta, rollingDailyExpected, expectedDelta, tolerance) ==
    [prevValue |-> prevValue,
     elapsedDays |-> elapsedDays,
     maxReasonableDelta |-> maxReasonableDelta,
     hasExpected |-> TRUE,
     rollingDailyExpected |-> rollingDailyExpected,
     expectedDelta |-> expectedDelta,
     allowedDeltaLow |-> RMax(RInt(0), RSub(expectedDelta, tolerance)),
     allowedDeltaHigh |-> RMin(maxReasonableDelta, RAdd(expectedDelta, tolerance))]

\* tolerance = max(expectedDelta * 0.75, rollingDailyExpected, 2)
ForecastBand(prevValue, elapsedDays, maxReasonableDelta, rollingDailyExpected, expectedDelta) ==
    ExpectedBand(prevValue, elapsedDays, maxReasonableDelta, rollingDailyExpected, expectedDelta,
                 RMax(RMax(RMul(expectedDelta, Rat(3, 4)), rollingDailyExpected), RInt(2)))

\* the band without a forecast (no usable interval in the history)
CeilingBand(prevValue, elapsedDays, maxReasonableDelta) ==
    [prevValue |-> prevValue,
     elapsedDays |-> elapsedDays,
     maxReasonableDelta |-> maxReasonableDelta,
     hasExpected |-> FALSE,
     rollingDailyExpected |-> RInt(0),
     expectedDelta |-> RInt(0),
     allowedDeltaLow |-> RInt(0),
     allowedDeltaHigh |-> maxReasonableDelta]

\* rollingDailyExpected and expectedDelta from the weighted rates w
RollingBand(prevValue, elapsedDays, maxReasonableDelta, w) ==
    IF w[2] > 0
    THEN ForecastBand(prevValue, elapsedDays, maxReasonableDelta,
                      RDiv(w[1], RInt(w[2])),
                      RMul(RDiv(w[1], RInt(w[2])), elapsedDays))
    ELSE CeilingBand(prevValue, elapsedDays, maxReasonableDelta)

\* maxReasonableDelta = ceiling * max(elapsedDays, 1)
ElapsedBand(recent, utilityType, elapsedDays) ==
    RollingBand(recent[1].reading_value, elapsedDays,
                RMul(RInt(getMaxReasonableDailyUsage(utilityType)), RMax(elapsedDays, RInt(1))),
                WeightedRates(recent, 1))

\* the quantities normalizeMeterImageReadingValue derives from the history
NormalizerBand(recent, utilityType, capturedAt) ==
    ElapsedBand(recent, utilityType, ElapsedDays(recent[1].captured_at, capturedAt))

DigitPenalty == Rat(1, 100)

\* expectedScore of a candidate's delta
ExpectedScore(band, delta) ==
    IF band.hasExpected THEN RAbs(RSub(delta, band.expectedDelta)) ELSE delta

\* one element of candidateValues before the filters and the sort
ScoredCandidate(band, rawValue, candidate, delta, expectedScore) ==
    [candidate |-> candidate,
     delta |-> delta,
     withinReasonable |->
        RLe(band.allowedDeltaLow, delta) /\ RLe(delta, band.allowedDeltaHigh),
     expectedScore |-> expectedScore,
     score |-> RAdd(expectedScore, IF candidate = rawValue THEN RInt(0) ELSE DigitPenalty)]

ScoreOf(band, rawValue, candidate) ==
    ScoredCandidate(band, rawValue, candidate, RInt(candidate - band.prevValue),
                    ExpectedScore(band, RInt(candidate - band.prevValue)))

ScoreVariants(band, rawValue, variants) ==
    [k \in DOMAIN variants |-> ScoreOf(band, rawValue, variants[k])]

\* the variants that pass .filter(candidate >= prevValue), scored by .map
ScoredCandidates(band, rawValue) ==
    SelectSeq(ScoreVariants(band, rawValue, buildMeterReadVariants(rawValue)),
              LAMBDA item : item.candidate >= band.prevValue)

\* the scored candidates before the sort, in variant order
NormalizerCandidates(band, rawValue) ==
    SelectSeq(ScoredCandidates(band, rawValue),
              LAMBDA item : item.withinReasonable \/ RLe(item.delta, band.maxReasonableDelta))

\* candidateValues[0] after the stable sort by score
BestCandidate(candidates) ==
    candidates[CHOOSE k \in DOMAIN candidates :
        /\ \A j \in DOMAIN candidates : RLe(candidates[k].score, candidates[j].score)
        /\ \A j \in 1..(k - 1) : RLt(candidates[k].score, candidates[j].score)]

NoNote == "<null>"
Accepted(value) == [readingValue |-> value, correctionNote |-> NoNote, flagged |-> FALSE]

\* shouldCorrect
ShouldCorrect(band, rawValue, rawDelta, best, rawCandidates) ==
    /\ best.candidate # rawValue
    /\ \/ rawCandidates = <<>>
       \/ RLt(best.expectedScore, RMul(rawCandidates[1].expectedScore, Rat(1, 4)))
       \/ RLt(band.maxReasonableDelta, rawDelta)

\* the decision among the candidates, or the flag when there is none
ChooseCandidate(band, rawValue, rawDelta, candidateValues) ==
    IF candidateValues # <<>>
    THEN IF ShouldCorrect(band, rawValue, rawDelta, BestCandidate(candidateValues),
                          SelectSeq(candidateValues, LAMBDA item : item.candidate = rawValue))
         THEN [readingValue |-> BestCandidate(candidateValues).candidate,
               correctionNote |-> "auto_corrected",
               flagged |-> FALSE]
         ELSE Accepted(rawValue)
    ELSE [readingValue |-> rawValue, correctionNote |-> "implausible", flagged |-> TRUE]

\* a normalizer without the early return: it scores the candidates always
NormalizeInBandAlwaysScores(band, rawValue, rawDelta) ==
    ChooseCandidate(band, rawValue, rawDelta, NormalizerCandidates(band, rawValue))

\* the raw value is accepted when its delta lies in the band
NormalizeInBand(band, rawValue, rawDelta) ==
    IF RLe(band.allowedDeltaLow, rawDelta) /\ RLe(rawDelta, band.allowedDeltaHigh)
    THEN Accepted(rawValue)
    ELSE ChooseCandidate(band, rawValue, rawDelta, NormalizerCandidates(band, rawValue))

NormalizeAgainst(band, rawValue) ==
    NormalizeInBand(band, rawValue, RInt(rawValue - band.prevValue))

\* recent: getRecentMeterReads' rows, newest first
normalizeMeterImageReadingValue(recent, utilityType, capturedAt, rawValue) ==
    IF recent = <<>> THEN Accepted(rawValue)
    ELSE NormalizeAgainst(NormalizerBand(recent, utilityType, capturedAt), rawValue)

---------------------------------------------------------------------------
(* Unit & Meter Registry, Meter Identifier Resolver                         *)
(* An identifier string is a sequence of one-character strings.             *)

DigitChars == {"0", "1", "2", "3", "4", "5", "6", "7", "8", "9"}

\* value.replace(/\D/g, "")
normalizeMeterIdentifier(value) == SelectSeq(value, LAMBDA c : c \in DigitChars)

IdHouse == <<"3", "4", "5", "1", "8", "5", "6", "3", "9">>
IdCoach == <<"3", "4", "5", "1", "8", "5", "6", "4", "5">>
IdSuite == <<"3", "4", "8", "8", "1", "9", "7", "3", "1">>

NoMapping == [unitName |-> None, utilityType |-> NoUtility, readingUnitDefault |-> NoUnit]

METER_IDENTIFIER_MAP(key) ==
    CASE key = IdHouse ->
            [unitName |-> "House", utilityType |-> "electricity", readingUnitDefault |-> "kWh"]
      [] key = IdCoach ->
            [unitName |-> "Coach", utilityType |-> "electricity", readingUnitDefault |-> "kWh"]
      [] key = IdSuite ->
            [unitName |-> "Suite", utilityType |-> "electricity", readingUnitDefault |-> "kWh"]
      [] OTHER -> NoMapping

lookupMeterIdentifier(value) == METER_IDENTIFIER_MAP(normalizeMeterIdentifier(value))

RECURSIVE uniqueNormalizedMeterIdCandidates(_)
\* falsy values and empty normal forms are skipped, the first occurrence is kept
uniqueNormalizedMeterIdCandidates(values) ==
    IF values = <<>> THEN <<>>
    ELSE LET front == uniqueNormalizedMeterIdCandidates(SubSeq(values, 1, Len(values) - 1))
             normalized == normalizeMeterIdentifier(values[Len(values)])
         IN  IF normalized = <<>> \/ \E k \in DOMAIN front : front[k] = normalized
             THEN front
             ELSE Append(front, normalized)

\* the end of the match of /\d[\d\s-]{4,}\d/ starting at i, or 0: the last
\* digit of the run of digits, blanks and hyphens that begins at i
DigitRunEnd(text, i) ==
    LET inRun(c) == c \in DigitChars \cup {" ", "-"}
        ends == { e \in i..Len(text) :
                    /\ \A k \in i..e : inRun(text[k])
                    /\ text[e] \in DigitChars
                    /\ e - i + 1 >= 6 }
    IN  IF text[i] \in DigitChars /\ ends # {}
        THEN CHOOSE e \in ends : \A f \in ends : f <= e
        ELSE 0

RECURSIVE DigitSequencesFrom(_, _)
DigitSequencesFrom(text, i) ==
    IF i > Len(text) THEN <<>>
    ELSE LET e == DigitRunEnd(text, i)
         IN  IF e = 0 THEN DigitSequencesFrom(text, i + 1)
             ELSE <<normalizeMeterIdentifier(SubSeq(text, i, e))>>
                  \o DigitSequencesFrom(text, e + 1)

extractDigitSequences(text) == DigitSequencesFrom(text, 1)

\* a score that looks at the length alone
MeterIdScoreLengthOnly(a) == IF Len(a) = 9 THEN 1 ELSE 0

\* Number(/^345\d{6}$/.test(a)) * 10 + Number(a.length === 9), on digit strings
MeterIdScore(a) ==
    (IF Len(a) = 9 /\ SubSeq(a, 1, 3) = <<"3", "4", "5">> THEN 10 ELSE 0)
    + (IF Len(a) = 9 THEN 1 ELSE 0)

RECURSIVE InsertByScore(_, _)
InsertByScore(s, e) ==
    IF s = <<>> THEN <<e>>
    ELSE IF MeterIdScore(e) > MeterIdScore(Head(s)) THEN <<e>> \o s
    ELSE <<Head(s)>> \o InsertByScore(Tail(s), e)

RECURSIVE SortByScore(_)
\* a stable sort by descending score
SortByScore(s) ==
    IF s = <<>> THEN <<>>
    ELSE InsertByScore(SortByScore(SubSeq(s, 1, Len(s) - 1)), s[Len(s)])

chooseMappedMeterIdentifier(extracted) ==
    LET candidates == uniqueNormalizedMeterIdCandidates(
                          <<extracted.meter_identifier>>
                          \o extracted.meter_identifier_candidates
                          \o extractDigitSequences(extracted.evidence))
        prioritized == SortByScore(candidates)
        hits == SelectSeq(prioritized, LAMBDA c : lookupMeterIdentifier(c) # NoMapping)
    IN  IF hits # <<>>
        THEN [identifier |-> hits[1], mapping |-> lookupMeterIdentifier(hits[1]),
              tried |-> prioritized]
        ELSE [identifier |-> normalizeMeterIdentifier(extracted.meter_identifier),
              mapping |-> NoMapping, tried |-> prioritized]

---------------------------------------------------------------------------
(* Daily Apportionment Engine: the view energy_weather_report               *)
(* usage_value is numeric(12,3): it is kept in thousandths.                  *)

\* n / d rounded to the nearest integer, halves away from zero (d > 0)
RoundHalfAway(n, d) ==
    IF n >= 0 THEN (2 * n + d) \div (2 * d) ELSE -((2 * (-n) + d) \div (2 * d))

\* a filter on the entry type alone
IsMeterReadOfAnyStatus(row) == row.entry_type = "meter_read"

IsApprovedMeterRead(row) == row.parse_status = "approved" /\ row.entry_type = "meter_read"

ApprovedMeterIds(rows) == { i \in DOMAIN rows : IsApprovedMeterRead(rows[i]) }

RECURSIVE OrdersByInsertion(_, _)
\* the rows of S in the order of their insertion
OrdersByInsertion(rows, S) ==
    IF S = {} THEN {<<>>}
    ELSE LET first == CHOOSE m \in S : \A k \in S : m <= k
         IN  { <<first>> \o rest : rest \in OrdersByInsertion(rows, S \ {first}) }

RECURSIVE OrdersByCapturedAt(_, _)
\* every order "order by captured_at" may return for the rows S: rows of
\* equal captured_at come in any order
OrdersByCapturedAt(rows, S) ==
    IF S = {} THEN {<<>>}
    ELSE LET earliest == { m \in S : \A k \in S : rows[m].captured_at <= rows[k].captured_at }
         IN  UNION { { <<m>> \o rest : rest \in OrdersByCapturedAt(rows, S \ {m}) } :
                     m \in earliest }

\* lag(...) over (partition by unit_id, utility_type order by captured_at):
\* the position in ord of the row before ord[k] in its partition, or 0
LagPosition(rows, ord, k) ==
    LET same == { j \in 1..(k - 1) :
                    /\ rows[ord[j]].unit_id = rows[ord[k]].unit_id
                    /\ rows[ord[j]].utility_type = rows[ord[k]].utility_type }
    IN  IF same = {} THEN 0 ELSE CHOOSE j \in same : \A i \in same : i <= j

\* meter_intervals: one per row with a previous row
MeterInterval(prev, cur) ==
    [unit_id      |-> cur.unit_id,
     utility_type |-> cur.utility_type,
     usage_unit   |-> cur.reading_unit,
     prev_day     |-> DayOf(prev.captured_at),
     reading_day  |-> DayOf(cur.captured_at),
     total_delta  |-> cur.reading_value - prev.reading_value,
     days_between |-> Max2(DayOf(cur.captured_at) - DayOf(prev.captured_at), 1)]

\* a meter_daily whose series starts on the day of the previous read
MeterDailyRowsFromPrevDay(i) ==
    { [unit_id      |-> i.unit_id,
       utility_type |-> i.utility_type,
       usage_unit   |-> i.usage_unit,
       day          |-> day,
       usage_milli  |-> RoundHalfAway(1000 * i.total_delta, i.days_between)] :
      day \in i.prev_day..i.reading_day }

\* meter_daily of one interval: generate_series(prev_day + 1, reading_day)
MeterDailyRows(i) ==
    { [unit_id      |-> i.unit_id,
       utility_type |-> i.utility_type,
       usage_unit   |-> i.usage_unit,
       day          |-> day,
       usage_milli  |-> RoundHalfAway(1000 * i.total_delta, i.days_between)] :
      day \in (i.prev_day + 1)..i.reading_day }

IsBilledPeriod(row) ==
    /\ row.parse_status = "approved"
    /\ row.entry_type = "billed_usage"
    /\ row.period_start # NoDay
    /\ row.period_end # NoDay
    /\ row.period_end >= row.period_start

\* a billed_daily that divides by the days between the two dates
BilledDailyRowsExclusiveDays(row) ==
    { [unit_id      |-> row.unit_id,
       utility_type |-> row.utility_type,
       usage_unit   |-> row.reading_unit,
       day          |-> day,
       usage_milli  |-> RoundHalfAway(1000 * row.reading_value,
                                      Max2(row.period_end - row.period_start, 1))] :
      day \in row.period_start..row.period_end }

\* billed_daily of one billed row: generate_series(period_start, period_end)
BilledDailyRows(row) ==
    { [unit_id      |-> row.unit_id,
       utility_type |-> row.utility_type,
       usage_unit   |-> row.reading_unit,
       day          |-> day,
       usage_milli  |-> RoundHalfAway(1000 * row.reading_value,
                                      Max2(row.period_end - row.period_start + 1, 1))] :
      day \in row.period_start..row.period_end }

\* the meter intervals under the order ord of the approved meter reads
MeterIntervals(rows, ord) ==
    LET withPrev == SelectSeq([k \in DOMAIN ord |-> k],
                              LAMBDA k : LagPosition(rows, ord, k) # 0)
    IN  [n \in DOMAIN withPrev |->
            MeterInterval(rows[ord[LagPosition(rows, ord, withPrev[n])]],
                          rows[ord[withPrev[n]]])]

RECURSIVE MeterDailyBag(_)
MeterDailyBag(intervals) ==
    IF intervals = <<>> THEN EmptyBag
    ELSE SetToBag(MeterDailyRows(Head(intervals))) (+) MeterDailyBag(Tail(intervals))

RECURSIVE BilledDailyBag(_)
BilledDailyBag(rows) ==
    IF rows = <<>> THEN EmptyBag
    ELSE (IF IsBilledPeriod(Head(rows)) THEN SetToBag(BilledDailyRows(Head(rows))) ELSE EmptyBag)
         (+) BilledDailyBag(Tail(rows))

\* the rows of energy_weather_report (weather columns left out) when the
\* window functions see the approved meter reads in the order ord
EnergyWeatherReport(rows, ord) ==
    MeterDailyBag(MeterIntervals(rows, ord)) (+) BilledDailyBag(rows)

---------------------------------------------------------------------------
(* Persistence: rental_unit, meter_reading, utility_bill_charge             *)

\* table rental_unit (provisioned, never changed by the routes)
RentalUnits == {"u-house", "u-coach"}
UnitNameOf(unitId) == IF unitId = "u-house" THEN "House" ELSE "COACH"

\* the uuid pattern: "u-ghost" is a well-formed id of no unit
isUuid(value) == value \in {"u-house", "u-coach", "u-ghost"}

\* lower(unit_name)
LowerName(name) ==
    CASE name \in {"House", "HOUSE", "house"} -> "house"
      [] name \in {"Coach", "COACH", "coach"} -> "coach"
      [] name \in {"Suite", "suite"} -> "suite"
      [] OTHER -> name

getUnitNameById(unitId) == IF unitId \in RentalUnits THEN UnitNameOf(unitId) ELSE None

getUnitIdByName(unitName) ==
    LET hits == { u \in RentalUnits : LowerName(UnitNameOf(u)) = LowerName(unitName) }
    IN  IF hits = {} THEN None ELSE CHOOSE u \in hits : TRUE

ALLOWED_UTILITY_TYPES == {"electricity", "gas", "water"}
ALLOWED_ENTRY_TYPES == {"meter_read", "billed_usage"}

\* the row insertEntry writes: parse_status 'approved', source 'manual'
MeterReadingRow(unitId, entry, status) ==
    [unit_id       |-> unitId,
     utility_type  |-> entry.utility_type,
     entry_type    |-> entry.entry_type,
     captured_at   |-> entry.captured_at,
     reading_value |-> entry.reading_value,
     reading_unit  |-> entry.reading_unit,
     period_start  |-> entry.period_start,
     period_end    |-> entry.period_end,
     bill_id       |-> entry.bill_id,
     parse_status  |-> status]

\* the constraints of meter_reading an insert must meet: captured_at is a
\* timestamp and not null, unit_id references rental_unit, the two checks
RowAccepted(row) ==
    /\ row.captured_at # NoTime
    /\ row.unit_id \in RentalUnits
    /\ row.utility_type \in ALLOWED_UTILITY_TYPES
    /\ row.entry_type \in ALLOWED_ENTRY_TYPES

\* getRecentMeterReads: the approved meter reads of the unit and utility
RecentIds(rows, unitId, utilityType) ==
    { i \in DOMAIN rows :
        /\ rows[i].unit_id = unitId
        /\ rows[i].utility_type = utilityType
        /\ IsApprovedMeterRead(rows[i]) }

Reverse(s) == [k \in DOMAIN s |-> s[Len(s) + 1 - k]]

\* the results "order by captured_at desc limit N" may return
RecentMeterReads(rows, unitId, utilityType, limit) ==
    { LET desc == Reverse(ord)
      IN  [k \in 1..Min2(limit, Len(desc)) |->
              [captured_at |-> rows[desc[k]].captured_at,
               reading_value |-> rows[desc[k]].reading_value]] :
      ord \in OrdersByCapturedAt(rows, RecentIds(rows, unitId, utilityType)) }

\* the key of utility_bill_charge_dedupe_idx and of insertBillCharge's update
ChargeKey(unitId, c) ==
    <<unitId, c.utility_type, IF c.bill_id = NoBill THEN "" ELSE c.bill_id,
      c.period_start, c.period_end>>

ChargeRow(unitId, c) ==
    [unit_id |-> unitId, utility_type |-> c.utility_type, bill_id |-> c.bill_id,
     period_start |-> c.period_start, period_end |-> c.period_end,
     total_charges_cad |-> c.total_charges_cad]

ChargeMatches(rows, unitId, c) ==
    { i \in DOMAIN rows : ChargeKey(rows[i].unit_id, rows[i]) = ChargeKey(unitId, c) }

---------------------------------------------------------------------------
(* The requests: /api/energy/ingest (POST) and /api/meter-parse (POST)      *)

IdleReq ==
    [pc |-> "idle", mode |-> None, unitId |-> "", override |-> NoUtility,
     manual |-> FALSE, entries |-> <<>>, bcharges |-> <<>>, seen |-> 0,
     note |-> NoNote, tried |-> <<>>, dropped |-> <<>>,
     invalid |-> None, extractCalled |-> FALSE, extractOk |-> FALSE,
     normalized |-> FALSE, written |-> 0, view |-> "none",
     status |-> 0, error |-> None]

\* the response is returned: the handler's locals are gone
Respond(r, status, error) ==
    [req[r] EXCEPT !.pc = "done", !.status = status, !.error = error,
                   !.entries = <<>>, !.bcharges = <<>>, !.seen = 0,
                   !.unitId = "", !.override = NoUtility, !.manual = FALSE]

CanStart(r, W) == req[r].pc = "idle" /\ started < W.maxRequests

\* the input validation errors a request carries (the first that applies):
\* unit id missing where one is required or malformed, utility type not
\* allowed for the unit, billed_usage without a period
InvalidInput(unitId, unitRequired, utilityType, entryType, periodStart, periodEnd) ==
    IF (unitRequired /\ unitId = "") \/ (unitId # "" /\ ~isUuid(unitId)) THEN "unit_id"
    ELSE IF /\ unitId \in RentalUnits
            /\ utilityType \in ALLOWED_UTILITY_TYPES
            /\ ~isUtilityAllowedForUnit(UnitNameOf(unitId), utilityType) THEN "utility"
    ELSE IF entryType = "billed_usage" /\ (periodStart = NoDay \/ periodEnd = NoDay)
         THEN "period"
    ELSE None

(* ---- JSON mode 'meter' (manual entry) ---- *)

JsonStart(r, W) ==
    /\ CanStart(r, W)
    /\ \E unitId \in W.unitIds, utilityType \in W.utilities, entryType \in W.entryTypes,
          period \in W.periods, capturedAt \in W.ticks \cup {NoTime},
          readingValue \in W.values, readingUnit \in W.units :
        LET unitName == getUnitNameById(unitId)
            entry == ExtractedEntry(entryType, utilityType, capturedAt, readingValue,
                        IF readingUnit # NoUnit THEN readingUnit
                        ELSE IF utilityType = "gas" THEN "m3" ELSE "kWh",
                        NoBill, period[1], period[2])
            fresh == [IdleReq EXCEPT !.mode = "json", !.unitId = unitId,
                        !.invalid = InvalidInput(unitId, TRUE, utilityType, entryType,
                                                 period[1], period[2])]
            reject(status, error) ==
                [fresh EXCEPT !.pc = "done", !.status = status, !.error = error,
                              !.unitId = "", !.override = NoUtility, !.manual = FALSE]
        IN  req' = [req EXCEPT ![r] =
                IF unitId = "" \/ ~isUuid(unitId) THEN reject(400, "invalid_unit_id")
                ELSE IF utilityType \notin ALLOWED_UTILITY_TYPES
                     THEN reject(400, "invalid_utility")
                ELSE IF unitName = None THEN reject(404, "unit_not_found")
                ELSE IF ~isUtilityAllowedForUnit(unitName, utilityType)
                     THEN reject(400, "utility_not_allowed")
                ELSE IF entryType \notin ALLOWED_ENTRY_TYPES
                     THEN reject(400, "invalid_entry_type")
                ELSE IF entryType = "billed_usage" /\ (period[1] = NoDay \/ period[2] = NoDay)
                     THEN reject(400, "period_required")
                ELSE IF capturedAt = NoTime THEN reject(400, "invalid_captured_at")
                ELSE [fresh EXCEPT !.pc = "insert", !.entries = <<entry>>]]
    /\ started' = started + 1
    /\ UNCHANGED <<readings, charges, report, batch, deduped, norm, cost, daily, chosen>>

(* ---- the steps shared by the modes ---- *)

\* InsertEntryStep storing a corrected value over the latest row of the meter
InsertEntryStepOverwritesLatest(r) ==
    /\ req[r].pc = "insert"
    /\ \E dbOk \in BOOLEAN :
        LET row == MeterReadingRow(req[r].unitId, req[r].entries[1], "approved")
            earlier == { i \in DOMAIN readings :
                           /\ readings[i].unit_id = row.unit_id
                           /\ readings[i].utility_type = row.utility_type }
        IN
        IF dbOk /\ RowAccepted(row)
        THEN /\ readings' =
                  IF req[r].note # NoNote /\ earlier # {}
                  THEN [readings EXCEPT
                          ![CHOOSE i \in earlier : \A j \in earlier : j <= i] = row]
                  ELSE Append(readings, row)
             /\ req' = [req EXCEPT ![r] =
                   [@ EXCEPT !.pc = "refresh", !.written = @ + 1, !.view = "stale",
                             !.entries = <<>>]]
        ELSE /\ req' = [req EXCEPT ![r] = Respond(r, 500, "db_error")]
             /\ UNCHANGED readings
    /\ UNCHANGED <<charges, report, started, batch, deduped, norm, cost, daily, chosen>>

\* await insertEntry(unitId, entry, ...) of the JSON and meter_image modes
InsertEntryStep(r) ==
    /\ req[r].pc = "insert"
    /\ \E dbOk \in BOOLEAN :
        LET row == MeterReadingRow(req[r].unitId, req[r].entries[1], "approved") IN
        IF dbOk /\ RowAccepted(row)
        THEN /\ readings' = Append(readings, row)
             /\ req' = [req EXCEPT ![r] =
                   [@ EXCEPT !.pc = "refresh", !.written = @ + 1, !.view = "stale",
                             !.entries = <<>>]]
        ELSE /\ req' = [req EXCEPT ![r] = Respond(r, 500, "db_error")]
             /\ UNCHANGED readings
    /\ UNCHANGED <<charges, report, started, batch, deduped, norm, cost, daily, chosen>>

\* RefreshStep with the failure of the refresh caught and passed over
RefreshStepFailureSwallowed(r) ==
    /\ req[r].pc = "refresh"
    /\ \/ /\ \E ord \in OrdersByCapturedAt(readings, ApprovedMeterIds(readings)) :
                report' = EnergyWeatherReport(readings, ord)
          /\ req' = [req EXCEPT ![r] = [@ EXCEPT !.pc = "respond", !.view = "rebuilt"]]
       \/ /\ req' = [req EXCEPT ![r] = [@ EXCEPT !.pc = "respond", !.view = "failed"]]
          /\ UNCHANGED report
    /\ UNCHANGED <<readings, charges, started, batch, deduped, norm, cost, daily, chosen>>

\* await dbQuery("refresh materialized view energy_weather_report")
RefreshStep(r) ==
    /\ req[r].pc = "refresh"
    /\ \/ /\ \E ord \in OrdersByCapturedAt(readings, ApprovedMeterIds(readings)) :
                report' = EnergyWeatherReport(readings, ord)
          /\ req' = [req EXCEPT ![r] = [@ EXCEPT !.pc = "respond", !.view = "rebuilt"]]
       \/ /\ req' = [req EXCEPT ![r] = [Respond(r, 500, "db_error") EXCEPT !.view = "failed"]]
          /\ UNCHANGED report
    /\ UNCHANGED <<readings, charges, started, batch, deduped, norm, cost, daily, chosen>>

\* await getUsageStats(...) for each utility, then the success response
RespondStep(r) ==
    /\ req[r].pc = "respond"
    /\ \E dbOk \in BOOLEAN :
          req' = [req EXCEPT ![r] =
                    IF dbOk THEN Respond(r, 200, None) ELSE Respond(r, 500, "db_error")]
    /\ UNCHANGED <<readings, charges, report, started, batch, deduped, norm, cost, daily, chosen>>

\* the client has its response
Retire(r) ==
    /\ req[r].pc = "done"
    /\ req' = [req EXCEPT ![r] = IdleReq]
    /\ UNCHANGED <<readings, charges, report, started, batch, deduped, norm, cost, daily, chosen>>

(* ---- multipart mode 'meter_image' (meter photo) ---- *)

PhotoStart(r, W) ==
    /\ CanStart(r, W)
    /\ \E unitId \in W.unitIds, override \in W.overrides, manual \in W.manual,
          fileOk \in W.files :
        LET fresh == [IdleReq EXCEPT !.mode = "meter_image", !.unitId = unitId,
                        !.manual = manual,
                        !.invalid = InvalidInput(unitId, manual, NoUtility, "meter_read",
                                                 NoDay, NoDay)]
            reject(status, error) ==
                [fresh EXCEPT !.pc = "done", !.status = status, !.error = error,
                              !.unitId = "", !.override = NoUtility, !.manual = FALSE]
        IN  req' = [req EXCEPT ![r] =
                IF override # NoUtility /\ override \notin ALLOWED_UTILITY_TYPES
                THEN reject(400, "invalid_utility")
                ELSE IF ~fileOk THEN reject(400, "file_required")
                ELSE [fresh EXCEPT !.pc = "extract"]]
    /\ started' = started + 1
    /\ UNCHANGED <<readings, charges, report, batch, deduped, norm, cost, daily, chosen>>

\* await extractMeterFromImage(file, timezone), then the resolution of the
\* meter and of the unit, up to the normalization
PhotoExtract(r, W) ==
    /\ req[r].pc = "extract"
    /\ req[r].mode = "meter_image"
    /\ \/ req' = [req EXCEPT ![r] =
                    [Respond(r, 500, "extraction_error") EXCEPT !.extractCalled = TRUE]]
       \/ \E extracted \in W.photos :
          \E capturedAt \in (IF extracted.captured_at = NoTime THEN W.ticks
                             ELSE {extracted.captured_at}) :
            LET resolvedMeter == chooseMappedMeterIdentifier(extracted)
                unitId == req[r].unitId
                called == [req[r] EXCEPT !.extractCalled = TRUE, !.extractOk = TRUE]
                reject(status, error) ==
                    [called EXCEPT !.pc = "done", !.status = status, !.error = error,
                               !.unitId = "", !.override = NoUtility, !.manual = FALSE]
                selectedUnitName == getUnitNameById(unitId)
                mapping ==
                    IF req[r].manual
                    THEN [unitName |-> selectedUnitName, utilityType |-> "electricity",
                          readingUnitDefault |-> "kWh"]
                    ELSE resolvedMeter.mapping
                mappedUnitId == getUnitIdByName(mapping.unitName)
                entry == ExtractedEntry("meter_read", mapping.utilityType, capturedAt,
                            extracted.reading_value,
                            IF extracted.reading_unit # NoUnit THEN extracted.reading_unit
                            ELSE mapping.readingUnitDefault,
                            "meter-image", NoDay, NoDay)
                proceed(u) ==
                    [called EXCEPT !.pc = "normalize", !.unitId = u, !.entries = <<entry>>]
            IN  req' = [req EXCEPT ![r] =
                    IF req[r].manual
                    THEN IF unitId = "" \/ ~isUuid(unitId) THEN reject(400, "invalid_unit_id")
                         ELSE IF selectedUnitName = None THEN reject(404, "unit_not_found")
                         ELSE proceed(unitId)
                    ELSE IF mapping = NoMapping
                         THEN [reject(422, "unknown_meter") EXCEPT
                                  !.tried = resolvedMeter.tried]
                         ELSE IF mappedUnitId = None THEN reject(404, "mapped_unit_not_found")
                         ELSE IF unitId # "" /\ (~isUuid(unitId) \/ unitId # mappedUnitId)
                              THEN reject(400, "unit_mismatch")
                         ELSE proceed(mappedUnitId)]
    /\ UNCHANGED <<readings, charges, report, started, batch, deduped, norm, cost, daily, chosen>>

\* PhotoNormalize without the return on normalization.flagged
PhotoNormalizeInsertsFlagged(r) ==
    /\ req[r].pc = "normalize"
    /\ LET entry == req[r].entries[1] IN
       \E recent \in RecentMeterReads(readings, req[r].unitId, entry.utility_type,
                                      getRollingWindowSize(entry.utility_type)) :
          LET normalization ==
                normalizeMeterImageReadingValue(recent, entry.utility_type,
                                                entry.captured_at, entry.reading_value)
          IN  req' = [req EXCEPT ![r] =
                [@ EXCEPT !.pc = "insert", !.normalized = ~normalization.flagged,
                          !.note = normalization.correctionNote,
                          !.entries = <<[entry EXCEPT
                               !.reading_value = normalization.readingValue]>>,
                          !.seen = Cardinality(RecentIds(readings, req[r].unitId,
                                                         entry.utility_type))]]
    /\ UNCHANGED <<readings, charges, report, started, batch, deduped, norm, cost, daily, chosen>>

\* await normalizeMeterImageReadingValue(...): the history is read here
PhotoNormalize(r) ==
    /\ req[r].pc = "normalize"
    /\ LET entry == req[r].entries[1] IN
       \E recent \in RecentMeterReads(readings, req[r].unitId, entry.utility_type,
                                      getRollingWindowSize(entry.utility_type)) :
          LET normalization ==
                normalizeMeterImageReadingValue(recent, entry.utility_type,
                                                entry.captured_at, entry.reading_value)
          IN  req' = [req EXCEPT ![r] =
                IF normalization.flagged
                THEN [Respond(r, 422, "flagged") EXCEPT !.note = normalization.correctionNote]
                ELSE [@ EXCEPT !.pc = "insert", !.normalized = TRUE,
                               !.note = normalization.correctionNote,
                               !.entries = <<[entry EXCEPT
                                    !.reading_value = normalization.readingValue]>>,
                               !.seen = Cardinality(RecentIds(readings, req[r].unitId,
                                                              entry.utility_type))]]
    /\ UNCHANGED <<readings, charges, report, started, batch, deduped, norm, cost, daily, chosen>>

(* ---- multipart mode 'bill' (bill PDF) ---- *)

BillStart(r, W) ==
    /\ CanStart(r, W)
    /\ \E unitId \in W.unitIds, override \in W.overrides, fileOk \in W.files :
        LET unitName == getUnitNameById(unitId)
            fresh == [IdleReq EXCEPT !.mode = "bill", !.unitId = unitId,
                        !.override = override,
                        !.invalid = InvalidInput(unitId, TRUE, override, "meter_read",
                                                 NoDay, NoDay)]
            reject(status, error) ==
                [fresh EXCEPT !.pc = "done", !.status = status, !.error = error,
                              !.unitId = "", !.override = NoUtility, !.manual = FALSE]
        IN  req' = [req EXCEPT ![r] =
                IF override # NoUtility /\ override \notin ALLOWED_UTILITY_TYPES
                THEN reject(400, "invalid_utility")
                ELSE IF ~fileOk THEN reject(400, "file_required")
                ELSE IF unitId = "" \/ ~isUuid(unitId) THEN reject(400, "invalid_unit_id")
                ELSE IF unitName = None THEN reject(404, "unit_not_found")
                ELSE IF override # NoUtility /\ ~isUtilityAllowedForUnit(unitName, override)
                     THEN reject(400, "utility_not_allowed")
                ELSE [fresh EXCEPT !.pc = "extract"]]
    /\ started' = started + 1
    /\ UNCHANGED <<readings, charges, report, batch, deduped, norm, cost, daily, chosen>>

\* the entries extractEntriesFromPdf returns: the override applied, then the filter
FilterExtractedEntries(entries, override) ==
    LET mapped == [k \in DOMAIN entries |->
                     [entries[k] EXCEPT !.utility_type =
                         IF override # NoUtility THEN override ELSE @]]
    IN  SelectSeq(mapped, LAMBDA e :
            /\ e.utility_type \in ALLOWED_UTILITY_TYPES
            /\ e.entry_type \in ALLOWED_ENTRY_TYPES)

FilterExtractedCharges(bcharges, override) ==
    LET mapped == [k \in DOMAIN bcharges |->
                     [bcharges[k] EXCEPT !.utility_type =
                         IF override # NoUtility THEN override ELSE @]]
    IN  SelectSeq(mapped, LAMBDA c :
            /\ c.utility_type \in ALLOWED_UTILITY_TYPES
            /\ c.total_charges_cad >= 0)

AfterEntries(bcharges) == IF bcharges = <<>> THEN "refresh" ELSE "charge_update"

\* await extractEntriesFromPdf(...), the deduplication and the allow-list check
BillExtract(r, W) ==
    /\ req[r].pc = "extract"
    /\ req[r].mode = "bill"
    /\ \/ req' = [req EXCEPT ![r] =
                    [Respond(r, 500, "extraction_error") EXCEPT !.extractCalled = TRUE]]
       \/ \E parsed \in W.bills :
            LET entries == FilterExtractedEntries(parsed.entries, req[r].override)
                billCharges == FilterExtractedCharges(parsed.bill_charges, req[r].override)
                unitName == getUnitNameById(req[r].unitId)
                result == dedupeRedundantBilledUsageEntries(entries)
                entriesToInsert == result.entries
                called == [req[r] EXCEPT !.extractCalled = TRUE, !.extractOk = TRUE]
                reject(status, error) ==
                    [called EXCEPT !.pc = "done", !.status = status, !.error = error,
                               !.unitId = "", !.override = NoUtility, !.manual = FALSE]
            IN  req' = [req EXCEPT ![r] =
                    IF entries = <<>> /\ billCharges = <<>> THEN reject(422, "no_entries")
                    ELSE IF \/ \E k \in DOMAIN entriesToInsert :
                                  ~isUtilityAllowedForUnit(unitName, entriesToInsert[k].utility_type)
                            \/ \E k \in DOMAIN billCharges :
                                  ~isUtilityAllowedForUnit(unitName, billCharges[k].utility_type)
                         THEN reject(400, "extracted_utility_not_allowed")
                    ELSE [called EXCEPT
                            !.pc = IF entriesToInsert # <<>> THEN "insert_entries"
                                   ELSE AfterEntries(billCharges),
                            !.entries = entriesToInsert,
                            !.bcharges = billCharges,
                            !.dropped = result.removed]]
    /\ UNCHANGED <<readings, charges, report, started, batch, deduped, norm, cost, daily, chosen>>

\* one turn of the loop over entriesToInsert: await insertEntry(...)
BillInsertEntry(r) ==
    /\ req[r].pc = "insert_entries"
    /\ \E dbOk \in BOOLEAN :
        LET row == MeterReadingRow(req[r].unitId, Head(req[r].entries), "approved")
            rest == Tail(req[r].entries)
        IN  IF dbOk /\ RowAccepted(row)
            THEN /\ readings' = Append(readings, row)
                 /\ req' = [req EXCEPT ![r] =
                       [@ EXCEPT !.entries = rest, !.written = @ + 1, !.view = "stale",
                                 !.pc = IF rest # <<>> THEN "insert_entries"
                                        ELSE AfterEntries(req[r].bcharges)]]
            ELSE /\ req' = [req EXCEPT ![r] = Respond(r, 500, "db_error")]
                 /\ UNCHANGED readings
    /\ UNCHANGED <<charges, report, started, batch, deduped, norm, cost, daily, chosen>>

\* insertBillCharge, first statement: update ... where the key matches
BillChargeUpdate(r) ==
    /\ req[r].pc = "charge_update"
    /\ \E dbOk \in BOOLEAN :
        LET c == Head(req[r].bcharges)
            rest == Tail(req[r].bcharges)
            hits == ChargeMatches(charges, req[r].unitId, c)
        IN  IF ~dbOk
            THEN /\ req' = [req EXCEPT ![r] = Respond(r, 500, "db_error")]
                 /\ UNCHANGED charges
            ELSE IF hits # {}
            THEN /\ charges' = [i \in DOMAIN charges |->
                        IF i \in hits
                        THEN [charges[i] EXCEPT !.total_charges_cad = c.total_charges_cad]
                        ELSE charges[i]]
                 /\ req' = [req EXCEPT ![r] =
                       [@ EXCEPT !.bcharges = rest, !.written = @ + 1, !.view = "stale",
                                 !.pc = AfterEntries(rest)]]
            ELSE /\ req' = [req EXCEPT ![r] = [@ EXCEPT !.pc = "charge_insert"]]
                 /\ UNCHANGED charges
    /\ UNCHANGED <<readings, report, started, batch, deduped, norm, cost, daily, chosen>>

\* BillChargeInsert on a table without utility_bill_charge_dedupe_idx
BillChargeInsertNoIndex(r) ==
    /\ req[r].pc = "charge_insert"
    /\ \E dbOk \in BOOLEAN :
        LET c == Head(req[r].bcharges)
            rest == Tail(req[r].bcharges)
        IN  IF dbOk
            THEN /\ charges' = Append(charges, ChargeRow(req[r].unitId, c))
                 /\ req' = [req EXCEPT ![r] =
                       [@ EXCEPT !.bcharges = rest, !.written = @ + 1, !.view = "stale",
                                 !.pc = AfterEntries(rest)]]
            ELSE /\ req' = [req EXCEPT ![r] = Respond(r, 500, "db_error")]
                 /\ UNCHANGED charges
    /\ UNCHANGED <<readings, report, started, batch, deduped, norm, cost, daily, chosen>>

\* insertBillCharge, second statement: insert; utility_bill_charge_dedupe_idx
\* refuses a second row of the key
BillChargeInsert(r) ==
    /\ req[r].pc = "charge_insert"
    /\ \E dbOk \in BOOLEAN :
        LET c == Head(req[r].bcharges)
            rest == Tail(req[r].bcharges)
        IN  IF dbOk /\ ChargeMatches(charges, req[r].unitId, c) = {}
            THEN /\ charges' = Append(charges, ChargeRow(req[r].unitId, c))
                 /\ req' = [req EXCEPT ![r] =
                       [@ EXCEPT !.bcharges = rest, !.written = @ + 1, !.view = "stale",
                                 !.pc = AfterEntries(rest)]]
            ELSE /\ req' = [req EXCEPT ![r] = Respond(r, 500, "db_error")]
                 /\ UNCHANGED charges
    /\ UNCHANGED <<readings, report, started, batch, deduped, norm, cost, daily, chosen>>

(* ---- /api/meter-parse ---- *)

\* the whole handler: the validation, the unit lookup and the insert with
\* parse_status 'pending_review'
MeterParsePost(r, W) ==
    /\ CanStart(r, W)
    /\ \E unitId \in W.unitIds, utilityType \in W.parseUtilities,
          entryType \in W.entryTypes, period \in W.periods, capturedAt \in W.ticks,
          readingValue \in W.values, hasImage \in W.files, dbOk \in BOOLEAN :
        LET unitName == getUnitNameById(unitId)
            entry == ExtractedEntry(entryType, utilityType, capturedAt, readingValue,
                                    "kWh", NoBill, period[1], period[2])
            row == MeterReadingRow(unitId, entry, "pending_review")
            fresh == [IdleReq EXCEPT !.mode = "meter_parse", !.unitId = unitId,
                        !.invalid = InvalidInput(unitId, TRUE, utilityType, entryType,
                                                 period[1], period[2])]
            reject(status, error) ==
                [fresh EXCEPT !.pc = "done", !.status = status, !.error = error,
                              !.unitId = "", !.override = NoUtility, !.manual = FALSE]
            outcome ==
                IF unitId = "" THEN reject(400, "invalid_unit_id")
                ELSE IF entryType = "meter_read" /\ ~hasImage THEN reject(400, "file_required")
                ELSE IF capturedAt = NoTime THEN reject(400, "invalid_captured_at")
                ELSE IF utilityType \notin ALLOWED_UTILITY_TYPES
                     THEN reject(400, "invalid_utility")
                ELSE IF ~isUuid(unitId) THEN reject(500, "db_error")
                ELSE IF unitName = None THEN reject(404, "unit_not_found")
                ELSE IF ~isUtilityAllowedForUnit(unitName, utilityType)
                     THEN reject(400, "utility_not_allowed")
                ELSE IF entryType \notin ALLOWED_ENTRY_TYPES
                     THEN reject(400, "invalid_entry_type")
                ELSE IF entryType = "billed_usage" /\ (period[1] = NoDay \/ period[2] = NoDay)
                     THEN reject(400, "period_required")
                ELSE IF ~(dbOk /\ RowAccepted(row)) THEN reject(500, "db_error")
                ELSE [fresh EXCEPT !.pc = "done", !.status = 200, !.written = 1, !.unitId = ""]
        IN  /\ req' = [req EXCEPT ![r] = outcome]
            /\ readings' = IF outcome.status = 200 THEN Append(readings, row) ELSE readings
    /\ started' = started + 1
    /\ UNCHANGED <<charges, report, batch, deduped, norm, cost, daily, chosen>>

---------------------------------------------------------------------------
(* Spec: every mode of the two routes, over a coarse set of inputs          *)

ExtractedMeterImage(id, candidates, evidence, value, runit, at) ==
    [meter_identifier |-> id,
     meter_identifier_candidates |-> candidates,
     evidence |-> evidence,
     reading_value |-> value,
     reading_unit |-> runit,
     captured_at |-> at]

ExtractedBillCharge(utility, bill, pstart, pend, total) ==
    [utility_type |-> utility, bill_id |-> bill, period_start |-> pstart,
     period_end |-> pend, total_charges_cad |-> total]

IdUnknown == <<"7", "7", "1", "2">>
IdCoachDashed == <<"3", "4", "5", "-", "1", "8", "5", "-", "6", "4", "5">>

\* what the extraction service may return for a meter photo
PhotosCoarse ==
    { ExtractedMeterImage(IdHouse, <<>>, <<>>, 1000, "kWh", 0),
      ExtractedMeterImage(IdUnknown, <<IdCoachDashed>>, <<>>, 1000, NoUnit, NoTime),
      ExtractedMeterImage(IdSuite, <<>>, <<>>, 1000, "kWh", 0),
      ExtractedMeterImage(IdUnknown, <<>>, <<>>, 1000, "kWh", 0),
      \* a reading with one digit too many
      ExtractedMeterImage(IdHouse, <<>>, <<>>, 10050, "kWh", 0) }

\* what the extraction service may return for a bill
BillsCoarse ==
    { \* a gas bill: a read in m3, the billed energy in GJ, the charges
      [entries |-> << ExtractedEntry("meter_read", "gas", 0, 1000, "m3", "B1", NoDay, NoDay),
                      ExtractedEntry("billed_usage", "gas", 0, 2, "GJ", "B1", 0, 0) >>,
       bill_charges |-> << ExtractedBillCharge("gas", "B1", 0, 0, 50) >>],
      \* an electricity bill whose billed usage restates the meter delta
      [entries |-> << ExtractedEntry("meter_read", "electricity", 0, 1000, "kWh", "B2", NoDay, NoDay),
                      ExtractedEntry("meter_read", "electricity", 1, 1100, "kWh", "B2", NoDay, NoDay),
                      ExtractedEntry("billed_usage", "electricity", 1, 100, "kWh", "B2", 0, 0) >>,
       bill_charges |-> << ExtractedBillCharge("electricity", "B2", 0, 0, 30) >>],
      \* a billed usage whose period the extraction could not read
      [entries |-> << ExtractedEntry("billed_usage", "electricity", 0, 100, "kWh", NoBill, NoDay, NoDay) >>,
       bill_charges |-> <<>>],
      \* a read whose date the extraction could not read, behind a good one
      [entries |-> << ExtractedEntry("meter_read", "electricity", 0, 1000, "kWh", NoBill, NoDay, NoDay),
                      ExtractedEntry("meter_read", "electricity", NoTime, 1100, "kWh", NoBill, NoDay, NoDay) >>,
       bill_charges |-> <<>>],
      \* nothing usable
      [entries |-> << ExtractedEntry("other", "electricity", 0, 1000, "kWh", NoBill, NoDay, NoDay) >>,
       bill_charges |-> << ExtractedBillCharge("electricity", NoBill, NoDay, NoDay, -1) >>] }

WorkloadCoarse ==
    [maxRequests |-> MaxRequests,
     slots      |-> {"r1"},
     unitIds    |-> {"", "bad", "u-ghost", "u-house", "u-coach"},
     utilities  |-> {"electricity", "gas", "steam"},
     parseUtilities |-> {"electricity", "gas"},
     overrides  |-> {NoUtility, "gas", "steam"},
     entryTypes |-> {"meter_read", "billed_usage"},
     periods    |-> {<<NoDay, NoDay>>, <<0, 0>>},
     ticks      |-> {0},
     values     |-> {1000},
     units      |-> {NoUnit},
     files      |-> BOOLEAN,
     manual     |-> BOOLEAN,
     photos     |-> PhotosCoarse,
     bills      |-> BillsCoarse]

Init ==
    /\ readings = <<>>
    /\ charges = <<>>
    /\ report = EmptyBag
    /\ req = [r \in WorkloadCoarse.slots |-> IdleReq]
    /\ started = 0
    /\ batch = <<>>
    /\ deduped = [applied |-> FALSE, entries |-> <<>>, removed |-> <<>>]
    /\ norm = NoCall
    /\ cost = NoCall
    /\ daily = NoCall
    /\ chosen = NoCall

Next ==
    \/ \E r \in DOMAIN req : JsonStart(r, WorkloadCoarse)
    \/ \E r \in DOMAIN req : PhotoStart(r, WorkloadCoarse)
    \/ \E r \in DOMAIN req : PhotoExtract(r, WorkloadCoarse)
    \/ \E r \in DOMAIN req : PhotoNormalize(r)
    \/ \E r \in DOMAIN req : BillStart(r, WorkloadCoarse)
    \/ \E r \in DOMAIN req : BillExtract(r, WorkloadCoarse)
    \/ \E r \in DOMAIN req : BillInsertEntry(r)
    \/ \E r \in DOMAIN req : BillChargeUpdate(r)
    \/ \E r \in DOMAIN req : BillChargeInsert(r)
    \/ \E r \in DOMAIN req : InsertEntryStep(r)
    \/ \E r \in DOMAIN req : RefreshStep(r)
    \/ \E r \in DOMAIN req : RespondStep(r)
    \/ \E r \in DOMAIN req : MeterParsePost(r, WorkloadCoarse)
    \/ \E r \in DOMAIN req : Retire(r)

Spec == Init /\ [][Next]_vars

---------------------------------------------------------------------------
(* SpecReads: concurrent manual entries and meter photos of one meter       *)
(* (House, electricity), over every capture time and a set of values        *)

MaxReadRequests == 2

ReadValues == {990, 1000, 10050}

WorkloadReads ==
    [maxRequests |-> MaxReadRequests,
     slots      |-> {"r1", "r2"},
     unitIds    |-> {"u-house"},
     utilities  |-> {"electricity"},
     parseUtilities |-> {"electricity"},
     overrides  |-> {NoUtility},
     entryTypes |-> {"meter_read"},
     periods    |-> {<<NoDay, NoDay>>},
     ticks      |-> Ticks,
     values     |-> ReadValues,
     units      |-> {NoUnit},
     files      |-> {TRUE},
     manual     |-> {FALSE},
     photos     |-> { ExtractedMeterImage(IdHouse, <<>>, <<>>, v, "kWh", t) :
                        v \in ReadValues, t \in Ticks },
     bills      |-> {}]

InitReads ==
    /\ readings = <<>>
    /\ charges = <<>>
    /\ report = EmptyBag
    /\ req = [r \in WorkloadReads.slots |-> IdleReq]
    /\ started = 0
    /\ batch = <<>>
    /\ deduped = [applied |-> FALSE, entries |-> <<>>, removed |-> <<>>]
    /\ norm = NoCall
    /\ cost = NoCall
    /\ daily = NoCall
    /\ chosen = NoCall

NextReads ==
    \/ \E r \in DOMAIN req : JsonStart(r, WorkloadReads)
    \/ \E r \in DOMAIN req : PhotoStart(r, WorkloadReads)
    \/ \E r \in DOMAIN req : PhotoExtract(r, WorkloadReads)
    \/ \E r \in DOMAIN req : PhotoNormalize(r)
    \/ \E r \in DOMAIN req : InsertEntryStep(r)
    \/ \E r \in DOMAIN req : RefreshStep(r)
    \/ \E r \in DOMAIN req : RespondStep(r)
    \/ \E r \in DOMAIN req : Retire(r)

SpecReads == InitReads /\ [][NextReads]_vars

---------------------------------------------------------------------------
(* SpecDedupe: dedupeRedundantBilledUsageEntries applied to every batch of   *)
(* at most MaxBatch extracted entries drawn from DedupePool                  *)

DedupeReadKeys ==
    { <<"gas", "m3", NoBill>>, <<"gas", "M3", "">>,
      <<"gas", "m3", "B1">>, <<"electricity", "m3", NoBill>> }

DedupeBilledKeys == { <<"gas", "m3", NoBill>>, <<"gas", "GJ", NoBill>> }

DedupePool ==
    { ExtractedEntry("meter_read", k[1], t, v, k[2], k[3], NoDay, NoDay) :
        k \in DedupeReadKeys, t \in {0, 1}, v \in {0, 100} }
    \cup
    { ExtractedEntry("billed_usage", k[1], 0, v, k[2], k[3], 0, 1) :
        k \in DedupeBilledKeys, v \in {1, 100, 102, 103} }

NotDeduped == [applied |-> FALSE, entries |-> <<>>, removed |-> <<>>]

MainIdle ==
    /\ readings = <<>>
    /\ charges = <<>>
    /\ report = EmptyBag
    /\ req = <<>>
    /\ started = 0

InitDedupe ==
    /\ MainIdle
    /\ batch = <<>>
    /\ deduped = NotDeduped
    /\ norm = NoCall
    /\ cost = NoCall
    /\ daily = NoCall
    /\ chosen = NoCall

\* the extraction returns one more entry
DedupeAddEntry ==
    /\ ~deduped.applied
    /\ Len(batch) < MaxBatch
    /\ \E e \in DedupePool : batch' = Append(batch, e)
    /\ UNCHANGED <<readings, charges, report, req, started, deduped, norm, cost, daily, chosen>>

DedupeApply ==
    /\ ~deduped.applied
    /\ deduped' = [applied |-> TRUE] @@ dedupeRedundantBilledUsageEntries(batch)
    /\ UNCHANGED <<readings, charges, report, req, started, batch, norm, cost, daily, chosen>>

NextDedupe == DedupeAddEntry \/ DedupeApply

SpecDedupe == InitDedupe /\ [][NextDedupe]_vars

---------------------------------------------------------------------------
(* SpecNorm: normalizeMeterImageReadingValue on its own.  The history, the  *)
(* capture time and the raw value are drawn at the start; the function is   *)
(* applied to them, and then applied again to the value it returned.        *)

MaxNormDay == 10
NormHistoryLen == 2

\* capture times: the start, half a day, one day and MaxNormDay days later
NormTicks == {0, 1, TicksPerDay, MaxNormDay * TicksPerDay}

\* reading values of the rows of the history
NormValues == {-2000, 10, 1000}

\* values read off the photo
NormRawValues == {-1234, 105, 1005, 1300, 11050, 50000, 105000}

NormUtilities == {"electricity", "water"}

NormRow(value, at) == [reading_value |-> value, captured_at |-> at]

\* getRecentMeterReads returns the rows newest first
NormHistories ==
    UNION { { h \in [1..n -> { NormRow(v, t) : v \in NormValues, t \in NormTicks }] :
                \A k \in 1..(n - 1) : h[k].captured_at >= h[k + 1].captured_at } :
            n \in 0..NormHistoryLen }

NormInputs ==
    { [stage |-> "input", recent |-> h, utilityType |-> u, capturedAt |-> t, rawValue |-> v,
       ceiling |-> RInt(0), low |-> RInt(0), high |-> RInt(0),
       forecast |-> FALSE, rate |-> RInt(0), expected |-> RInt(0), scored |-> <<>>, result |-> Accepted(v), again |-> Accepted(v)] :
        h \in NormHistories, u \in NormUtilities, t \in NormTicks, v \in NormRawValues }

InitNorm ==
    /\ MainIdle
    /\ batch = <<>>
    /\ deduped = NotDeduped
    /\ norm \in NormInputs
    /\ cost = NoCall
    /\ daily = NoCall
    /\ chosen = NoCall

\* the candidates the call scores: none when the history is empty or the raw
\* delta lies in the band, since the function returns before the map
NormScoredIn(band, rawValue, rawDelta) ==
    IF RLe(band.allowedDeltaLow, rawDelta) /\ RLe(rawDelta, band.allowedDeltaHigh)
    THEN <<>>
    ELSE ScoredCandidates(band, rawValue)

NormScored(recent, utilityType, capturedAt, rawValue) ==
    IF recent = <<>> THEN <<>>
    ELSE NormScoredIn(NormalizerBand(recent, utilityType, capturedAt), rawValue,
                      RInt(rawValue - recent[1].reading_value))

\* maxReasonableDelta of the call, 0 when the history is empty
NormCeiling(recent, utilityType, capturedAt) ==
    IF recent = <<>> THEN RInt(0)
    ELSE NormalizerBand(recent, utilityType, capturedAt).maxReasonableDelta

\* allowedDeltaLow and allowedDeltaHigh of the call, 0 when the history is empty
NormLow(recent, utilityType, capturedAt) ==
    IF recent = <<>> THEN RInt(0)
    ELSE NormalizerBand(recent, utilityType, capturedAt).allowedDeltaLow

NormHigh(recent, utilityType, capturedAt) ==
    IF recent = <<>> THEN RInt(0)
    ELSE NormalizerBand(recent, utilityType, capturedAt).allowedDeltaHigh

\* rollingDailyExpected !== null, and rollingDailyExpected and expectedDelta
\* of the call (0 when null)
NormForecast(recent, utilityType, capturedAt) ==
    IF recent = <<>> THEN FALSE
    ELSE NormalizerBand(recent, utilityType, capturedAt).hasExpected

NormRate(recent, utilityType, capturedAt) ==
    IF recent = <<>> THEN RInt(0)
    ELSE NormalizerBand(recent, utilityType, capturedAt).rollingDailyExpected

NormExpected(recent, utilityType, capturedAt) ==
    IF recent = <<>> THEN RInt(0)
    ELSE NormalizerBand(recent, utilityType, capturedAt).expectedDelta

\* one call of normalizeMeterImageReadingValue
NormApply ==
    /\ norm.stage = "input"
    /\ norm' = [norm EXCEPT
                  !.stage = "normalized",
                  !.ceiling = NormCeiling(norm.recent, norm.utilityType, norm.capturedAt),
                  !.low = NormLow(norm.recent, norm.utilityType, norm.capturedAt),
                  !.high = NormHigh(norm.recent, norm.utilityType, norm.capturedAt),
                  !.forecast = NormForecast(norm.recent, norm.utilityType, norm.capturedAt),
                  !.rate = NormRate(norm.recent, norm.utilityType, norm.capturedAt),
                  !.expected = NormExpected(norm.recent, norm.utilityType, norm.capturedAt),
                  !.scored = NormScored(norm.recent, norm.utilityType, norm.capturedAt,
                                        norm.rawValue),
                  !.result = normalizeMeterImageReadingValue(norm.recent, norm.utilityType,
                                                             norm.capturedAt, norm.rawValue)]
    /\ UNCHANGED <<readings, charges, report, req, started, batch, deduped, cost, daily, chosen>>

\* a second call on the value the first call returned, nothing else changed
NormReapply ==
    /\ norm.stage = "normalized"
    /\ ~norm.result.flagged
    /\ norm' = [norm EXCEPT
                  !.stage = "renormalized",
                  !.again = normalizeMeterImageReadingValue(norm.recent, norm.utilityType,
                                                            norm.capturedAt,
                                                            norm.result.readingValue)]
    /\ UNCHANGED <<readings, charges, report, req, started, batch, deduped, cost, daily, chosen>>

NextNorm == NormApply \/ NormReapply

SpecNorm == InitNorm /\ [][NextNorm]_vars

---------------------------------------------------------------------------
(* SpecView: the query of energy_weather_report on its own.  The table is   *)
(* drawn at the start from a pool of rows; the rebuild computes the daily   *)
(* rows of meter_daily and of billed_daily from it.                         *)

MaxViewDay == 10
MaxViewRows == 3

\* capture times: the start, later the same day, the next day, MaxViewDay days later
ViewTicks == {0, 1, TicksPerDay, MaxViewDay * TicksPerDay}

ViewMeterRow(unitId, value, at, status) ==
    MeterReadingRow(unitId,
                    ExtractedEntry("meter_read", "electricity", at, value, "kWh", NoBill,
                                   NoDay, NoDay),
                    status)

ViewBilledRow(value, pstart, pend, status) ==
    MeterReadingRow("u-house",
                    ExtractedEntry("billed_usage", "electricity", 0, value, "kWh", "B1",
                                   pstart, pend),
                    status)

\* the rows a table is made of
ViewPool ==
    { ViewMeterRow("u-house", v, t, "approved") : v \in {1000, 1030}, t \in ViewTicks }
    \cup { ViewMeterRow("u-coach", 1500, TicksPerDay, "approved"),
           ViewMeterRow("u-house", 2000, TicksPerDay, "pending_review") }
    \cup { ViewBilledRow(100, 0, MaxViewDay - 1, "approved"),
           ViewBilledRow(10, 0, 2, "approved"),
           ViewBilledRow(10, 1, 1, "approved"),
           ViewBilledRow(10, 2, 0, "approved"),
           ViewBilledRow(10, NoDay, NoDay, "approved"),
           ViewBilledRow(10, 0, 2, "pending_review") }

\* the tables of up to MaxViewRows rows of the pool, in insertion order
ViewTables == UNION { [1..n -> ViewPool] : n \in 0..MaxViewRows }

NotRebuilt == [stage |-> "stored", ord |-> <<>>, meter |-> EmptyBag, billed |-> EmptyBag]

InitView ==
    /\ readings \in ViewTables
    /\ charges = <<>>
    /\ report = EmptyBag
    /\ req = <<>>
    /\ started = 0
    /\ batch = <<>>
    /\ deduped = NotDeduped
    /\ norm = NoCall
    /\ cost = NoCall
    /\ daily = NotRebuilt
    /\ chosen = NoCall

\* refresh materialized view energy_weather_report
ViewRefresh ==
    /\ daily.stage = "stored"
    /\ \E ord \in OrdersByCapturedAt(readings, ApprovedMeterIds(readings)) :
          /\ report' = EnergyWeatherReport(readings, ord)
          /\ daily' = [stage  |-> "rebuilt",
                       ord    |-> ord,
                       meter  |-> MeterDailyBag(MeterIntervals(readings, ord)),
                       billed |-> BilledDailyBag(readings)]
    /\ UNCHANGED <<readings, charges, req, started, batch, deduped, norm, cost, chosen>>

NextView == ViewRefresh

SpecView == InitView /\ [][NextView]_vars

---------------------------------------------------------------------------
(* Cost Estimator.  Amounts of money are integers in units of 10^-7 dollar, *)
(* in which every product of a rate and a usage below is exact; electricity *)
(* is counted in tenths of a kWh and gas in 10^-4 GJ.  toFixed(2) rounds    *)
(* the double: an amount that is exactly half a cent goes up or down with   *)
(* the double that stands for it, which cost.halfUp tells.                  *)

\* BC_HYDRO_RATES
HydroBasicChargePerDay == 2330000      \* 0.2330 dollar per day
HydroTier1Rate == 117200               \* 0.1172 dollar per kWh, per tenth of a kWh
HydroTier2Rate == 140800               \* 0.1408 dollar per kWh, per tenth of a kWh
HydroTier1PerDay == 225                \* 22.5 kWh per day, in tenths
HydroGstPerMille == 50                 \* 0.05

\* FORTIS_GAS_RATES
GasBasicChargePerDay == 4216000        \* 0.4216 dollar per day
GasDeliveryPerGj == 8469               \* 8.469 dollar per GJ, per 10^-4 GJ
GasStorageTransportPerGj == 2255       \* 2.255
GasCommodityPerGj == 2230              \* 2.23
GasLevyPerMille == 4                   \* 0.004
GasGstPerMille == 50                   \* 0.05
GasGjPerM3 == 1325                     \* 0.1325 GJ per m3, in 10^-4 GJ

\* one cent in money units
UnitsPerCent == 100000

\* the step of MulDivRem for one more binary digit e of the multiplier
MulDivStep(half, a, e, m) ==
    <<2 * half[1] + (2 * half[2] + e * a) \div m, (2 * half[2] + e * a) % m>>

RECURSIVE MulDivRem(_, _, _)
\* <<q, r>> with a * b = q * m + r and 0 <= r < m, for 0 <= a < m, computed
\* without a product larger than 3 * m
MulDivRem(a, b, m) ==
    IF b = 0 THEN <<0, 0>>
    ELSE MulDivStep(MulDivRem(a, b \div 2, m), a, b % 2, m)

\* the integer nearest to q + r / m; one of the neighbours when r / m is one half
NearestTo(q, r, m) ==
    IF 2 * r < m THEN q
    ELSE IF 2 * r > m THEN q + 1
    ELSE IF cost.halfUp THEN q + 1 ELSE q

NearestOfPair(a, b, m, qr) == NearestTo((a \div m) * b + qr[1], qr[2], m)

\* Number((a * b / m).toFixed(0)), for a >= 0
RoundedQuotient(a, b, m) == NearestOfPair(a, b, m, MulDivRem(a % m, b, m))

\* roundMoney(amount) and roundMoney(amount * perMillion / 1000000), in cents
roundMoney(amount) == RoundedQuotient(amount, 1, UnitsPerCent)
roundMoneyPerMillion(amount, perMillion) ==
    RoundedQuotient(amount, perMillion \div GCD(perMillion, 1000000),
                    (1000000 \div GCD(perMillion, 1000000)) * UnitsPerCent)

\* String(usageUnit || "").toLowerCase()
LowerUsageUnit(usageUnit) ==
    CASE usageUnit \in {"kWh", "KWH", "kwh"} -> "kwh"
      [] usageUnit \in {"GJ", "gj"} -> "gj"
      [] usageUnit \in {"m3", "M3"} -> "m3"
      [] OTHER -> usageUnit

NoGj == -1

\* toGasGj, in 10^-4 GJ; NoGj for null (never the value of a usage here,
\* which the callers replace by 0)
toGasGj(usageValue, usageUnit) ==
    CASE LowerUsageUnit(usageUnit) = "gj" -> 10000 * usageValue
      [] LowerUsageUnit(usageUnit) \in {"m3", "m^3"} -> GasGjPerM3 * usageValue
      [] OTHER -> NoGj

NullEstimate ==
    [isNull |-> TRUE, totalCad |-> 0, fixedCad |-> 0, variableCad |-> 0,
     taxesAndLeviesCad |-> 0, days |-> 0]

\* the itemized estimate of a fixed and a variable base amount whose taxes
\* and levies are taxPerMillion / 1000000 of their sum
ItemizedEstimate(fixedBase, variableBase, taxPerMillion, days) ==
    [isNull            |-> FALSE,
     totalCad          |-> roundMoneyPerMillion(fixedBase + variableBase,
                                                1000000 + taxPerMillion),
     fixedCad          |-> roundMoney(fixedBase),
     variableCad       |-> roundMoney(variableBase),
     taxesAndLeviesCad |-> roundMoneyPerMillion(fixedBase + variableBase, taxPerMillion),
     days              |-> days]

\* tier1Kwh * tier1KwhRate + tier2Kwh * tier2KwhRate
HydroVariableBase(kwh, tier1Kwh) ==
    tier1Kwh * HydroTier1Rate + Max2(kwh - tier1Kwh, 0) * HydroTier2Rate

\* kwh in tenths of a kWh
estimateElectricityCostCad(kwh, days) ==
    ItemizedEstimate(HydroBasicChargePerDay * days,
                      HydroVariableBase(kwh, Min2(Max2(kwh, 0), HydroTier1PerDay * days)),
                      1000 * HydroGstPerMille, days)

\* levy + gst as a part of the subtotal before the levy: levy + (1 + levy) * gst
GasTaxPerMillion == 1000 * GasLevyPerMille + (1000 + GasLevyPerMille) * GasGstPerMille

\* gj in 10^-4 GJ
estimateGasCostCadFromGj(gj, days) ==
    ItemizedEstimate(GasBasicChargePerDay * days,
                      Max2(gj, 0) * (GasDeliveryPerGj + GasStorageTransportPerGj
                                     + GasCommodityPerGj),
                      GasTaxPerMillion, days)

RECURSIVE SumKwh(_)
\* the sum of the kWh buckets, in tenths of a kWh
SumKwh(buckets) ==
    IF buckets = <<>> THEN 0
    ELSE (IF LowerUsageUnit(Head(buckets).usageUnit) = "kwh"
          THEN 10 * Head(buckets).usageValue ELSE 0)
         + SumKwh(Tail(buckets))

RECURSIVE SumGj(_)
\* the sum of toGasGj(...) ?? 0 over the buckets
SumGj(buckets) ==
    IF buckets = <<>> THEN 0
    ELSE (IF toGasGj(Head(buckets).usageValue, Head(buckets).usageUnit) = NoGj
          THEN 0
          ELSE toGasGj(Head(buckets).usageValue, Head(buckets).usageUnit))
         + SumGj(Tail(buckets))

\* gjBuckets.length > 0 ? gjBuckets : buckets
GasSourceBuckets(buckets, gjBuckets) == IF gjBuckets # <<>> THEN gjBuckets ELSE buckets

\* days is a whole number of days
estimateCostForBuckets(utilityType, buckets, days) ==
    IF days <= 0 THEN NullEstimate
    ELSE IF utilityType = "electricity"
    THEN estimateElectricityCostCad(SumKwh(buckets), days)
    ELSE IF utilityType = "gas"
    THEN estimateGasCostCadFromGj(
             SumGj(GasSourceBuckets(buckets,
                       SelectSeq(buckets, LAMBDA b : LowerUsageUnit(b.usageUnit) = "gj"))),
             days)
    ELSE NullEstimate

---------------------------------------------------------------------------
(* SpecCost: estimateCostForBuckets on its own.  The utility type, the      *)
(* buckets and the window length are drawn at the start; the function is    *)
(* applied to them, and then to the same buckets with more usage.           *)

MaxBuckets == 2

\* window lengths in days: getUsageStats passes 1, 8, 31, 91 and computed ones
CostDays == {-1, 0, 1, 8, 31}

UsageBucket(usageUnit, usageValue) == [usageUnit |-> usageUnit, usageValue |-> usageValue]

CostBuckets ==
    { UsageBucket("kWh", v) : v \in {-20, 0, 20, 200} }
    \cup { UsageBucket("GJ", v) : v \in {0, 3} }
    \cup { UsageBucket("m3", v) : v \in {0, 20} }
    \cup { UsageBucket("L", 5) }

\* what may be added to the value of a bucket
CostIncrements == {1, 2}

CostInputs ==
    { [stage |-> "input", utilityType |-> u, buckets |-> b, days |-> d, halfUp |-> h,
       estimate |-> NullEstimate, more |-> b, estimateMore |-> NullEstimate] :
        u \in ALLOWED_UTILITY_TYPES,
        b \in UNION { [1..n -> CostBuckets] : n \in 0..MaxBuckets },
        d \in CostDays,
        h \in BOOLEAN }

InitCost ==
    /\ MainIdle
    /\ batch = <<>>
    /\ deduped = NotDeduped
    /\ norm = NoCall
    /\ cost \in CostInputs
    /\ daily = NoCall
    /\ chosen = NoCall

\* one call of estimateCostForBuckets
CostEstimate ==
    /\ cost.stage = "input"
    /\ cost' = [cost EXCEPT
                  !.stage = "estimated",
                  !.estimate = estimateCostForBuckets(cost.utilityType, cost.buckets,
                                                      cost.days)]
    /\ UNCHANGED <<readings, charges, report, req, started, batch, deduped, norm, daily, chosen>>

\* a second call with the buckets more
CostEstimateMore(more) ==
    cost' = [cost EXCEPT
               !.stage = "compared",
               !.more = more,
               !.estimateMore = estimateCostForBuckets(cost.utilityType, more, cost.days)]

\* a second call with one more bucket, of non-negative usage
CostAddBucket ==
    /\ cost.stage = "estimated"
    /\ \E b \in { c \in CostBuckets : c.usageValue >= 0 } :
          CostEstimateMore(Append(cost.buckets, b))
    /\ UNCHANGED <<readings, charges, report, req, started, batch, deduped, norm, daily, chosen>>

\* a second call with the value of one bucket increased
CostRaiseBucket ==
    /\ cost.stage = "estimated"
    /\ \E i \in DOMAIN cost.buckets, inc \in CostIncrements :
          CostEstimateMore([cost.buckets EXCEPT ![i].usageValue = @ + inc])
    /\ UNCHANGED <<readings, charges, report, req, started, batch, deduped, norm, daily, chosen>>

NextCost == CostEstimate \/ CostAddBucket \/ CostRaiseBucket

SpecCost == InitCost /\ [][NextCost]_vars

---------------------------------------------------------------------------
(* Meter Identifier Resolver applied to what the extraction returned: the   *)
(* primary identifier, the listed candidates and the evidence text are      *)
(* drawn at the start.                                                      *)

MaxIdCandidates == 2

Id345Unknown == <<"3", "4", "5", "0", "0", "0", "0", "0", "0">>
IdNoDigits == <<"S", "N">>

\* "S/N 345185645"
EvidenceCoach == <<"S", "/", "N", " ">> \o IdCoach
\* "348 819-731 kWh"
EvidenceSuite ==
    <<"3", "4", "8", " ", "8", "1", "9", "-", "7", "3", "1", " ", "k", "W", "h">>

\* extractMeterImage rejects an empty meter_identifier
ChoosePrimaryIds == {IdHouse, IdSuite, IdUnknown, IdCoachDashed, Id345Unknown}
ChooseListedIds == ChoosePrimaryIds \cup {IdCoach, IdNoDigits}
ChooseEvidence == {<<>>, EvidenceCoach, EvidenceSuite}

ChooseInputs ==
    { [stage |-> "input",
       extracted |-> ExtractedMeterImage(id, listed, evidence, 1000, "kWh", 0),
       resolved |-> NoMapping]
      : id \in ChoosePrimaryIds,
        listed \in UNION { [1..n -> ChooseListedIds] : n \in 0..MaxIdCandidates },
        evidence \in ChooseEvidence }

InitChoose ==
    /\ MainIdle
    /\ batch = <<>>
    /\ deduped = NotDeduped
    /\ norm = NoCall
    /\ cost = NoCall
    /\ daily = NoCall
    /\ chosen \in ChooseInputs

\* const resolvedMeter = chooseMappedMeterIdentifier(extracted)
ChooseApply ==
    /\ chosen.stage = "input"
    /\ chosen' = [chosen EXCEPT !.stage = "resolved",
                                !.resolved = chooseMappedMeterIdentifier(chosen.extracted)]
    /\ UNCHANGED <<readings, charges, report, req, started, batch, deduped, norm, cost, daily>>

NextChoose == ChooseApply

SpecChoose == InitChoose /\ [][NextChoose]_vars

---------------------------------------------------------------------------
(* SpecBills: concurrent and repeated bill ingests for one unit, whose      *)
(* charges share keys and differ in their totals                            *)

MaxBillRequests == 3

BillCharges ==
    { ExtractedBillCharge("electricity", NoBill, NoDay, NoDay, 50),
      ExtractedBillCharge("electricity", NoBill, NoDay, NoDay, 70),
      ExtractedBillCharge("electricity", "B1", 0, 1, 50),
      ExtractedBillCharge("electricity", "B1", 0, 1, 70) }

BillsWithCharges ==
    { [entries |-> <<>>, bill_charges |-> <<c>>] : c \in BillCharges }
    \cup
    { [entries |-> << ExtractedEntry("billed_usage", "electricity", 0, 100, "kWh",
                                     "B1", 0, 1) >>,
       bill_charges |-> << ExtractedBillCharge("electricity", "B1", 0, 1, 50),
                           ExtractedBillCharge("electricity", NoBill, NoDay, NoDay, 70) >>] }

WorkloadBills ==
    [maxRequests |-> MaxBillRequests,
     slots      |-> {"r1", "r2"},
     unitIds    |-> {"u-house"},
     utilities  |-> {"electricity"},
     parseUtilities |-> {"electricity"},
     overrides  |-> {NoUtility},
     entryTypes |-> {"billed_usage"},
     periods    |-> {<<0, 1>>},
     ticks      |-> {0},
     values     |-> {100},
     units      |-> {NoUnit},
     files      |-> {TRUE},
     manual     |-> {FALSE},
     photos     |-> {},
     bills      |-> BillsWithCharges]

InitBills ==
    /\ readings = <<>>
    /\ charges = <<>>
    /\ report = EmptyBag
    /\ req = [r \in WorkloadBills.slots |-> IdleReq]
    /\ started = 0
    /\ batch = <<>>
    /\ deduped = NotDeduped
    /\ norm = NoCall
    /\ cost = NoCall
    /\ daily = NoCall
    /\ chosen = NoCall

NextBills ==
    \/ \E r \in DOMAIN req : BillStart(r, WorkloadBills)
    \/ \E r \in DOMAIN req : BillExtract(r, WorkloadBills)
    \/ \E r \in DOMAIN req : BillInsertEntry(r)
    \/ \E r \in DOMAIN req : BillChargeUpdate(r)
    \/ \E r \in DOMAIN req : BillChargeInsert(r)
    \/ \E r \in DOMAIN req : RefreshStep(r)
    \/ \E r \in DOMAIN req : RespondStep(r)
    \/ \E r \in DOMAIN req : Retire(r)

SpecBills == InitBills /\ [][NextBills]_vars

---------------------------------------------------------------------------
(* SpecRates: the normalizer applied to histories of several intervals with *)
(* different rates                                                          *)

RateHistoryLen == 3

RateTicks == {0, TicksPerDay, 2 * TicksPerDay, 4 * TicksPerDay}
RateValues == {1000, 1020, 1030, 1060}

\* getRecentMeterReads returns the newest row first
RateHistories ==
    UNION { { h \in [1..n -> { NormRow(v, t) : v \in RateValues, t \in RateTicks }] :
                \A k \in 1..(n - 1) : h[k].captured_at >= h[k + 1].captured_at } :
            n \in 0..RateHistoryLen }

RateInputs ==
    { [stage |-> "input", recent |-> h, utilityType |-> "electricity", capturedAt |-> t,
       rawValue |-> 1065,
       ceiling |-> RInt(0), low |-> RInt(0), high |-> RInt(0),
       forecast |-> FALSE, rate |-> RInt(0), expected |-> RInt(0), scored |-> <<>>,
       result |-> Accepted(1065), again |-> Accepted(1065)] :
        h \in RateHistories, t \in {4 * TicksPerDay, 5 * TicksPerDay} }

InitRates ==
    /\ MainIdle
    /\ batch = <<>>
    /\ deduped = NotDeduped
    /\ norm \in RateInputs
    /\ cost = NoCall
    /\ daily = NoCall
    /\ chosen = NoCall

NextRates == NormApply

SpecRates == InitRates /\ [][NextRates]_vars

---------------------------------------------------------------------------
(* Properties of the stored readings, of the requests and of the view       *)

\* the approved meter reads of the partition of row i captured strictly
\* between the rows i and j
ReadsBetween(rows, i, j) ==
    { k \in ApprovedMeterIds(rows) :
        /\ rows[k].unit_id = rows[i].unit_id
        /\ rows[k].utility_type = rows[i].utility_type
        /\ rows[i].captured_at < rows[k].captured_at
        /\ rows[k].captured_at < rows[j].captured_at }

\* C1: every approved meter_read has a value greater than or equal to the
\* value of the approved meter_read of its unit and utility type that
\* immediately precedes it in capture-time order.
C1_ApprovedReadsNonDecreasing ==
    \A i, j \in ApprovedMeterIds(readings) :
        (/\ readings[i].unit_id = readings[j].unit_id
         /\ readings[i].utility_type = readings[j].utility_type
         /\ readings[i].captured_at < readings[j].captured_at
         /\ ReadsBetween(readings, i, j) = {})
        => readings[j].reading_value >= readings[i].reading_value

\* the request has inserted the reading of its meter photo
PhotoInserted(r) ==
    /\ req[r].mode = "meter_image"
    /\ req[r].pc \in {"refresh", "respond"}
    /\ req[r].written = 1

\* C2: no two meter-photo requests for the same unit (a meter photo is always
\* an electricity read) have both normalized against the same state of the
\* history (seen) and both inserted their reading.
C2_ReadLatestAndInsertAtomic ==
    \A r1, r2 \in DOMAIN req :
        (/\ r1 # r2
         /\ PhotoInserted(r1) /\ PhotoInserted(r2)
         /\ req[r1].unitId = req[r2].unitId)
        => req[r1].seen # req[r2].seen

\* C3: a bill or meter-photo request whose extraction failed or whose reading
\* was flagged ends with an error status, having written nothing and having
\* started no rebuild; a request has written or rebuilt only after its
\* extraction succeeded and, for a photo, its normalization did not flag.
C3_NoWriteUnlessExtractedAndUnflagged ==
    \A r \in DOMAIN req :
        req[r].mode \in {"bill", "meter_image"} =>
            /\ (req[r].pc = "done" /\ req[r].error \in {"extraction_error", "flagged"})
               => /\ req[r].status >= 400
                  /\ req[r].written = 0
                  /\ req[r].view = "none"
            /\ (req[r].written > 0 \/ req[r].view # "none" \/ req[r].status = 200)
               => /\ req[r].extractOk
                  /\ req[r].mode = "meter_image" => req[r].normalized

\* a meter photo was flagged against a stored history, and nothing was written
C3_Witness ==
    \E r \in DOMAIN req :
        /\ req[r].pc = "done"
        /\ req[r].mode = "meter_image"
        /\ req[r].error = "flagged"
        /\ req[r].extractOk
        /\ req[r].written = 0
        /\ ApprovedMeterIds(readings) # {}

\* C4: a request with a missing or malformed unit id, a utility type not
\* allowed for its unit or a billed_usage entry without a period never has
\* the extraction called, writes nothing and ends with an error status.
C4_InvalidInputRejectedBeforeExtraction ==
    \A r \in DOMAIN req :
        req[r].invalid # None =>
            /\ ~req[r].extractCalled
            /\ req[r].written = 0
            /\ req[r].pc = "done" => req[r].status >= 400

\* C5: every stored billed_usage reading has a period start and a period
\* end, and every stored meter_read has a capture timestamp.
C5_StoredEntriesCarryPeriodOrTimestamp ==
    \A i \in DOMAIN readings :
        /\ readings[i].entry_type = "billed_usage"
           => (readings[i].period_start # NoDay /\ readings[i].period_end # NoDay)
        /\ readings[i].entry_type = "meter_read" => readings[i].captured_at # NoTime

IngestModes == {"json", "bill", "meter_image"}

\* C6: an ingest request that returns success has written, has rebuilt the
\* view after its last write (view = "rebuilt" is reset to "stale" by every
\* write) and the view holds the rows of the store it answers for; a request
\* whose rebuild failed has ended with an error status.
C6_RebuildBetweenLastWriteAndSuccess ==
    \A r \in DOMAIN req :
        req[r].mode \in IngestModes =>
            /\ (req[r].pc = "done" /\ req[r].status = 200)
               => /\ req[r].written >= 1
                  /\ req[r].view = "rebuilt"
                  /\ \E ord \in OrdersByCapturedAt(readings, ApprovedMeterIds(readings)) :
                        report = EnergyWeatherReport(readings, ord)
            /\ req[r].view = "failed" => (req[r].pc = "done" /\ req[r].status >= 400)
            /\ req[r].pc = "respond" => req[r].view = "rebuilt"

\* a bill request that wrote several rows has returned success over a view
\* that holds daily rows
C6_Witness ==
    \E r \in DOMAIN req :
        /\ req[r].pc = "done"
        /\ req[r].status = 200
        /\ req[r].mode = "bill"
        /\ req[r].written >= 2
        /\ report # EmptyBag

\* the allow-list of the unit policy, by lower-cased unit name
PolicyOfUnit(unitId) ==
    LET name == LowerName(UnitNameOf(unitId)) IN
    IF name \in {"coach", "suite"} THEN {"electricity"}
    ELSE IF name = "house" THEN {"electricity", "gas"}
    ELSE {"electricity", "gas", "water"}

\* C7: no stored reading and no stored bill charge has a utility type outside
\* the allow-list of its unit.
C7_StoredUtilityAllowedForUnit ==
    /\ \A i \in DOMAIN readings :
          readings[i].utility_type \in PolicyOfUnit(readings[i].unit_id)
    /\ \A i \in DOMAIN charges :
          charges[i].utility_type \in PolicyOfUnit(charges[i].unit_id)

\* the store holds a gas row of the House, an electricity row of the Coach
\* and a bill charge
C7_Witness ==
    /\ \E i \in DOMAIN readings :
          readings[i].unit_id = "u-house" /\ readings[i].utility_type = "gas"
    /\ \E i \in DOMAIN readings :
          readings[i].unit_id = "u-coach" /\ readings[i].utility_type = "electricity"
    /\ charges # <<>>

\* the sum, in thousandths, of the daily rows meter_daily emits for an interval
DailySumMilli(i) ==
    Cardinality(MeterDailyRows(i)) * RoundHalfAway(1000 * i.total_delta, i.days_between)

\* no two approved meter reads share a capture time: the capture-time order
\* is the only order
DistinctCaptureTimes(rows) ==
    \A i, j \in ApprovedMeterIds(rows) :
        i # j => rows[i].captured_at # rows[j].captured_at

\* C8: for every pair of consecutive approved meter reads of a unit and
\* utility type, the sum of the daily values emitted for the interval is the
\* interval's delta, to within half a thousandth per emitted row (stated for
\* stores whose approved meter reads have distinct capture times).
C8_DailySumReconstructsDelta ==
    \A ord \in OrdersByCapturedAt(readings, ApprovedMeterIds(readings)) :
        LET intervals == MeterIntervals(readings, ord) IN
        \A n \in DOMAIN intervals :
            DistinctCaptureTimes(readings) =>
            2 * Abs(DailySumMilli(intervals[n]) - 1000 * intervals[n].total_delta)
                <= Max2(Cardinality(MeterDailyRows(intervals[n])), 1)

(* Vocabulary of the claims about a batch *)

RECURSIVE Count(_, _)
Count(s, e) ==
    IF s = <<>> THEN 0
    ELSE (IF Head(s) = e THEN 1 ELSE 0) + Count(Tail(s), e)

\* reading units are the same unit when they differ in letter case only
SameReadingUnit(a, b) == LowerUnit(a) = LowerUnit(b)
\* an empty bill id is an absent bill id
SameBillId(a, b) ==
    \/ a = b
    \/ (a \in {"", NoBill} /\ b \in {"", NoBill})

\* positions of the meter reads of the batch sharing utility type, reading
\* unit and bill id with the entry e
QualifyingReads(entries, e) ==
    { j \in DOMAIN entries :
        /\ entries[j].entry_type = "meter_read"
        /\ entries[j].utility_type = e.utility_type
        /\ SameReadingUnit(entries[j].reading_unit, e.reading_unit)
        /\ SameBillId(entries[j].bill_id, e.bill_id) }

RemovalRecordOf(r, e) ==
    /\ r.bill_id = e.bill_id
    /\ r.utility_type = e.utility_type
    /\ r.reading_unit = e.reading_unit
    /\ r.reading_value = e.reading_value

RemovalCount(removed, e) ==
    Cardinality({ k \in DOMAIN removed : RemovalRecordOf(removed[k], e) })

\* C9: dedupeRedundantBilledUsageEntries removes a billed_usage entry only
\* if the batch holds at least two meter_read entries with its utility type,
\* reading unit and bill id; every meter_read entry, and every billed_usage
\* entry without two such reads (a different unit included), is returned as
\* often as the batch holds it, and whatever is not returned is recorded as
\* removed.
C9_DedupeOnlyWithTwoReads ==
    deduped.applied =>
        /\ Len(deduped.entries) + Len(deduped.removed) = Len(batch)
        /\ \A i \in DOMAIN batch :
              Count(deduped.entries, batch[i]) <= Count(batch, batch[i])
        /\ \A i \in DOMAIN batch :
              (\/ batch[i].entry_type = "meter_read"
               \/ Cardinality(QualifyingReads(batch, batch[i])) < 2)
              => Count(deduped.entries, batch[i]) = Count(batch, batch[i])
        /\ \A k \in DOMAIN deduped.removed :
              \E i \in DOMAIN batch :
                 /\ batch[i].entry_type = "billed_usage"
                 /\ RemovalRecordOf(deduped.removed[k], batch[i])
                 /\ Cardinality(QualifyingReads(batch, batch[i])) >= 2

\* a batch with a GJ billed entry beside two m3 reads of the same bill whose
\* delta equals the billed value has been deduplicated, and the entry is kept
C9_Witness ==
    /\ deduped.applied
    /\ \E i, j, k \in DOMAIN batch :
          /\ batch[i].entry_type = "billed_usage"
          /\ batch[i].reading_unit = "GJ"
          /\ batch[j].entry_type = "meter_read" /\ batch[k].entry_type = "meter_read"
          /\ batch[j].utility_type = "gas" /\ batch[k].utility_type = "gas"
          /\ batch[j].bill_id = NoBill /\ batch[k].bill_id = NoBill
          /\ batch[j].captured_at < batch[k].captured_at
          /\ batch[k].reading_value - batch[j].reading_value = batch[i].reading_value
          /\ Count(deduped.entries, batch[i]) = 1

\* the value deltas "latest minus earliest" of the reads at the positions Q
\* (more than one when the earliest or the latest capture time is shared)
EndpointDeltas(entries, Q) ==
    LET first == { j \in Q : \A k \in Q : entries[j].captured_at <= entries[k].captured_at }
        last  == { j \in Q : \A k \in Q : entries[j].captured_at >= entries[k].captured_at }
    IN  { entries[l].reading_value - entries[f].reading_value : f \in first, l \in last }

\* |billed - delta| <= max(1, 2% of the larger magnitude), delta >= 0
CloseToBilled(billed, delta) ==
    /\ delta >= 0
    /\ \/ Abs(billed - delta) <= 1
       \/ 50 * Abs(billed - delta) <= Max2(Abs(billed), Abs(delta))

\* C10: a billed_usage entry with at least two meter reads of its utility
\* type, reading unit and bill id whose latest-minus-earliest delta is
\* non-negative and within max(1, 2%) of the billed value is absent from the
\* returned entries and has exactly one removal record; a billed_usage entry
\* for which that fails is kept and has no removal record; the reason of every
\* removal record states the matching delta.
C10_DedupeDropsMatchingDelta ==
    deduped.applied =>
        /\ \A i \in DOMAIN batch :
              batch[i].entry_type = "billed_usage" =>
                LET e == batch[i]
                    Q == QualifyingReads(batch, e)
                    deltas == EndpointDeltas(batch, Q)
                IN  /\ (/\ Cardinality(Q) >= 2
                        /\ \A d \in deltas : CloseToBilled(e.reading_value, d))
                       => /\ Count(deduped.entries, e) = 0
                          /\ RemovalCount(deduped.removed, e) = Count(batch, e)
                    /\ (\/ Cardinality(Q) < 2
                        \/ \A d \in deltas : ~CloseToBilled(e.reading_value, d))
                       => /\ Count(deduped.entries, e) = Count(batch, e)
                          /\ RemovalCount(deduped.removed, e) = 0
        /\ \A k \in DOMAIN deduped.removed :
              LET reason == deduped.removed[k].reason IN
              /\ reason.delta = reason.closing - reason.opening
              /\ CloseToBilled(deduped.removed[k].reading_value, reason.delta)

\* a billed entry of 102 beside two reads of its bill 100 apart (the 2% case)
\* has been dropped, with its removal record
C10_Witness ==
    /\ deduped.applied
    /\ Len(deduped.removed) = 1
    /\ deduped.removed[1].reading_value = 102
    /\ deduped.removed[1].reason.delta = 100
    /\ Len(deduped.entries) = 2

---------------------------------------------------------------------------
(* Properties of the meter read normalizer                                  *)

\* C11: when the normalizer returns a value that is not flagged, a second
\* call on that value with the same history and capture time returns the
\* value unchanged, not flagged and without a correction note.
C11_NormalizerIdempotent ==
    norm.stage = "renormalized" =>
        /\ norm.again.readingValue = norm.result.readingValue
        /\ ~norm.again.flagged
        /\ norm.again.correctionNote = NoNote

\* c is raw without its last k digits (k = 1 or 2), the sign kept
DropsLastDigits(c, raw, k) ==
    /\ Abs(c) = Abs(raw) \div (IF k = 1 THEN 10 ELSE 100)
    /\ (raw >= 0 => c >= 0)
    /\ (raw < 0 => c <= 0)

\* the candidates a call with a history has scored
ScoredValues == { norm.scored[k].candidate : k \in DOMAIN norm.scored }

RawDeltaOverCeiling ==
    /\ norm.recent # <<>>
    /\ RLt(norm.ceiling, RInt(norm.rawValue - norm.recent[1].reading_value))

\* the raw value without its last one or two digits, where that is at least
\* the previous value and its delta is at most (under: less than) the ceiling
CeilingTruncations(under) ==
    { c \in { Abs(norm.rawValue) \div 10, -(Abs(norm.rawValue) \div 10),
              Abs(norm.rawValue) \div 100, -(Abs(norm.rawValue) \div 100) } :
        /\ \E k \in {1, 2} : DropsLastDigits(c, norm.rawValue, k)
        /\ c >= norm.recent[1].reading_value
        /\ RLe(RInt(c - norm.recent[1].reading_value), norm.ceiling)
        /\ under => RInt(c - norm.recent[1].reading_value) # norm.ceiling }

\* the call returned one of the truncations under the ceiling, with a note
ReturnsCeilingTruncation ==
    /\ norm.result.readingValue \in CeilingTruncations(FALSE)
    /\ norm.result.correctionNote # NoNote
    /\ ~norm.result.flagged

LongEnoughTruncations(under) ==
    { c \in CeilingTruncations(under) :
        \E k \in {1, 2} :
            /\ DropsLastDigits(c, norm.rawValue, k)
            /\ DecimalLength(Abs(norm.rawValue)) + (IF norm.rawValue < 0 THEN 1 ELSE 0) >= 3 + k }

\* C13 (amended): the same, for a truncation of one digit of a raw value
\* written with four characters or more, or of two digits of a raw value
\* written with five or more.
C13_LongTruncationUnderCeilingReturned ==
    (norm.stage = "normalized" /\ RawDeltaOverCeiling /\ LongEnoughTruncations(TRUE) # {})
        => ReturnsCeilingTruncation

\* previous 1000 at day 0, raw 11050 at day MaxNormDay: 1105 with a note
C13_Witness ==
    /\ norm.stage = "normalized"
    /\ norm.recent = <<NormRow(1000, 0)>>
    /\ norm.utilityType = "electricity"
    /\ norm.capturedAt = MaxNormDay * TicksPerDay
    /\ norm.rawValue = 11050
    /\ RawDeltaOverCeiling
    /\ norm.result = [readingValue |-> 1105, correctionNote |-> "auto_corrected",
                      flagged |-> FALSE]

\* the raw value, when it is at least the previous value with a delta at or
\* under the ceiling
RawUnderCeiling ==
    IF /\ norm.rawValue >= norm.recent[1].reading_value
       /\ RLe(RInt(norm.rawValue - norm.recent[1].reading_value), norm.ceiling)
    THEN {norm.rawValue}
    ELSE {}

C14_FlaggedIffNoFormedCandidate ==
    (norm.stage = "normalized" /\ norm.recent # <<>>) =>
        (norm.result.flagged <=> RawUnderCeiling \cup LongEnoughTruncations(FALSE) = {})

\* previous 1000 at day 0, raw 50000 at day 1: flagged
C14_Witness ==
    /\ norm.stage = "normalized"
    /\ norm.recent = <<NormRow(1000, 0)>>
    /\ norm.utilityType = "electricity"
    /\ norm.capturedAt = TicksPerDay
    /\ norm.rawValue = 50000
    /\ norm.result.flagged
    /\ norm.result.correctionNote = "implausible"

\* the raw delta of the call lies in the acceptance band the call computed
RawDeltaInBand ==
    /\ norm.recent # <<>>
    /\ RLe(norm.low, RInt(norm.rawValue - norm.recent[1].reading_value))
    /\ RLe(RInt(norm.rawValue - norm.recent[1].reading_value), norm.high)

\* C15: when the raw delta lies inside the acceptance band, or there is no
\* prior approved reading, the normalizer returns the raw value unchanged,
\* without a correction note and not flagged.
C15_InBandAcceptedUnchanged ==
    (norm.stage = "normalized" /\ (norm.recent = <<>> \/ RawDeltaInBand)) =>
        /\ norm.result.readingValue = norm.rawValue
        /\ norm.result.correctionNote = NoNote
        /\ ~norm.result.flagged

\* previous 1000 at day 0, raw 1005 at day MaxNormDay: accepted unchanged
C15_Witness ==
    /\ norm.stage = "normalized"
    /\ norm.recent = <<NormRow(1000, 0)>>
    /\ norm.capturedAt = MaxNormDay * TicksPerDay
    /\ norm.rawValue = 1005
    /\ RawDeltaInBand
    /\ norm.result.readingValue = 1005

---------------------------------------------------------------------------
(* Properties of the daily rows of energy_weather_report                    *)

RECURSIVE BagCopies(_, _)
\* the number of copies in the bag B of the elements of the set S
BagCopies(B, S) ==
    IF S = {} THEN 0
    ELSE LET e == CHOOSE x \in S : TRUE
         IN  CopiesIn(e, B) + BagCopies(B, S \ {e})

\* m thousandths is n / d rounded to three decimals
IsNearestMilli(m, n, d) == 2 * Abs(m * d - 1000 * n) <= d

\* the positions p < q of daily.ord hold chronologically consecutive approved
\* meter reads of one unit and utility type
ConsecutiveReads(p, q) ==
    /\ p < q
    /\ readings[daily.ord[p]].unit_id = readings[daily.ord[q]].unit_id
    /\ readings[daily.ord[p]].utility_type = readings[daily.ord[q]].utility_type
    /\ \A k \in (p + 1)..(q - 1) :
          \/ readings[daily.ord[k]].unit_id # readings[daily.ord[q]].unit_id
          \/ readings[daily.ord[k]].utility_type # readings[daily.ord[q]].utility_type

\* the meter-derived rows of the unit and utility type of the row cur on a day
MeterRowsOn(cur, day) ==
    { row \in BagToSet(daily.meter) :
        /\ row.unit_id = cur.unit_id
        /\ row.utility_type = cur.utility_type
        /\ row.day = day }

\* one meter-derived row on each day of (d0, d1], of value delta / max(d1 - d0, 1)
OneMeterRowPerDay(prev, cur, d0, d1) ==
    \A day \in (d0 + 1)..d1 :
        /\ BagCopies(daily.meter, MeterRowsOn(cur, day)) = 1
        /\ \A row \in MeterRowsOn(cur, day) :
              IsNearestMilli(row.usage_milli, cur.reading_value - prev.reading_value,
                             Max2(d1 - d0, 1))

\* C16: for each pair of chronologically consecutive approved meter reads of
\* a unit and utility type, with reading days d0 <= d1, the daily series
\* holds exactly one meter-derived row for each calendar day of (d0, d1],
\* of value totalDelta / max(d1 - d0, 1) to three decimals.
C16_OneMeterRowPerDayOfInterval ==
    daily.stage = "rebuilt" =>
        \A p, q \in DOMAIN daily.ord :
            ConsecutiveReads(p, q) =>
                OneMeterRowPerDay(readings[daily.ord[p]], readings[daily.ord[q]],
                                  DayOf(readings[daily.ord[p]].captured_at),
                                  DayOf(readings[daily.ord[q]].captured_at))

\* a delta of 30 kWh over MaxViewDay days: MaxViewDay rows of 30 / MaxViewDay
C16_Witness ==
    /\ daily.stage = "rebuilt"
    /\ \E p, q \in DOMAIN daily.ord :
          /\ ConsecutiveReads(p, q)
          /\ readings[daily.ord[p]].captured_at = 0
          /\ readings[daily.ord[q]].captured_at = MaxViewDay * TicksPerDay
          /\ readings[daily.ord[q]].reading_value - readings[daily.ord[p]].reading_value = 30
    /\ BagCardinality(daily.meter) = MaxViewDay
    /\ \A row \in BagToSet(daily.meter) : row.usage_milli * MaxViewDay = 30000

\* the approved billed_usage rows of the table that have a period
BilledWithPeriod ==
    { i \in DOMAIN readings :
        /\ readings[i].parse_status = "approved"
        /\ readings[i].entry_type = "billed_usage"
        /\ readings[i].period_start # NoDay
        /\ readings[i].period_end # NoDay }

\* the number of calendar days of [periodStart, periodEnd]
PeriodDays(row) == Max2(row.period_end - row.period_start + 1, 0)

RECURSIVE SumPeriodDays(_)
SumPeriodDays(S) ==
    IF S = {} THEN 0
    ELSE LET i == CHOOSE x \in S : TRUE
         IN  PeriodDays(readings[i]) + SumPeriodDays(S \ {i})

\* the billed-derived rows of the value of the bill on a day
BilledRowsOn(bill, day) ==
    { row \in BagToSet(daily.billed) :
        /\ row.unit_id = bill.unit_id
        /\ row.utility_type = bill.utility_type
        /\ row.usage_unit = bill.reading_unit
        /\ row.day = day
        /\ IsNearestMilli(row.usage_milli, bill.reading_value,
                          Max2(bill.period_end - bill.period_start + 1, 1)) }

\* the bills of the table that give the same row as the bill on the day
BillsLike(bill, day) ==
    { j \in BilledWithPeriod :
        /\ readings[j].unit_id = bill.unit_id
        /\ readings[j].utility_type = bill.utility_type
        /\ readings[j].reading_unit = bill.reading_unit
        /\ readings[j].period_start <= day
        /\ day <= readings[j].period_end
        /\ \E row \in BilledRowsOn(bill, day) :
              IsNearestMilli(row.usage_milli, readings[j].reading_value,
                             Max2(readings[j].period_end - readings[j].period_start + 1, 1)) }

\* C17: for each approved billed_usage row that has a period, the daily
\* series holds exactly one billed-derived row for each calendar day of
\* [periodStart, periodEnd], of value reading / max(periodEnd - periodStart
\* + 1, 1) to three decimals, so that the rows of a bill sum to its reading
\* within the rounding of the rows; there is no other billed-derived row.
C17_OneBilledRowPerDayOfPeriod ==
    daily.stage = "rebuilt" =>
        /\ \A i \in BilledWithPeriod :
              \A day \in readings[i].period_start..readings[i].period_end :
                  /\ BilledRowsOn(readings[i], day) # {}
                  /\ BagCopies(daily.billed, BilledRowsOn(readings[i], day))
                        = Cardinality(BillsLike(readings[i], day))
                  /\ \A row \in BilledRowsOn(readings[i], day) :
                        2 * Abs(PeriodDays(readings[i]) * row.usage_milli
                                - 1000 * readings[i].reading_value)
                            <= PeriodDays(readings[i])
        /\ BagCardinality(daily.billed) = SumPeriodDays(BilledWithPeriod)

\* a bill of 10 kWh over the days 0 to 2: three rows of 3.333
C17_Witness ==
    /\ daily.stage = "rebuilt"
    /\ \E i \in BilledWithPeriod :
          /\ readings[i].reading_value = 10
          /\ readings[i].period_start = 0
          /\ readings[i].period_end = 2
          /\ \A day \in 0..2 :
                \E row \in BilledRowsOn(readings[i], day) : row.usage_milli = 3333
    /\ BagCardinality(daily.billed) = 3

---------------------------------------------------------------------------
(* Properties of the cost estimator                                         *)

\* the usage the estimator is to count for the utility type: kWh for
\* electricity, GJ or m3 for gas
CountedUnits(utilityType) ==
    CASE utilityType = "electricity" -> {"kwh"}
      [] utilityType = "gas" -> {"gj", "m3"}
      [] OTHER -> {}

\* the buckets hold no usage that counts, or none at all
ZeroUsage ==
    \A k \in DOMAIN cost.buckets :
        LowerUsageUnit(cost.buckets[k].usageUnit) \in CountedUnits(cost.utilityType)
            => cost.buckets[k].usageValue = 0

\* C18: for electricity and for gas and every window of D > 0 days, the
\* estimate for zero usage has a variable part of 0, and its total equals
\* its fixed part plus its taxes and levies, each rounded to cents.
C18_ZeroUsageTotalIsFixedPlusTax ==
    (/\ cost.stage = "estimated"
     /\ cost.utilityType \in {"electricity", "gas"}
     /\ cost.days > 0
     /\ ZeroUsage)
        => /\ ~cost.estimate.isNull
           /\ cost.estimate.variableCad = 0
           /\ cost.estimate.totalCad
                = cost.estimate.fixedCad + cost.estimate.taxesAndLeviesCad

\* C19: for a utility type and a window length, the total of the estimate
\* does not decrease when the value of a bucket is increased or a bucket of
\* non-negative usage is added.
C19_TotalMonotonicInUsage ==
    (cost.stage = "compared" /\ ~cost.estimate.isNull /\ ~cost.estimateMore.isNull)
        => cost.estimateMore.totalCad >= cost.estimate.totalCad

\* C19 for electricity alone: more kWh never lower the total.
C19_ElectricityTotalMonotonic ==
    (cost.stage = "compared" /\ cost.utilityType = "electricity" /\ cost.days > 0)
        => cost.estimateMore.totalCad >= cost.estimate.totalCad

\* C20: the estimate is null when the window is of 0 days or less, and an
\* itemized estimate for electricity, gas and water when it is longer.
C20_NullOnlyWithoutDays ==
    cost.stage = "estimated" =>
        (cost.estimate.isNull <=> cost.days <= 0)

\* C20 for the utility types the function has a branch for.
C20_NullOnlyWithoutDaysOrRates ==
    cost.stage = "estimated" =>
        (cost.estimate.isNull <=>
            (cost.days <= 0 \/ cost.utilityType \notin {"electricity", "gas"}))

---------------------------------------------------------------------------
(* Properties of the Meter Identifier Resolver                              *)

\* everything the extraction offers as an identifier, in the order of the call
OfferedIds(extracted) ==
    <<extracted.meter_identifier>> \o extracted.meter_identifier_candidates
    \o extractDigitSequences(extracted.evidence)

DigitsOnly(value) == \A k \in DOMAIN value : value[k] \in DigitChars

\* the position at which the digits c are first offered
FirstOffer(offered, c) ==
    CHOOSE k \in DOMAIN offered :
        /\ SelectSeq(offered[k], LAMBDA ch : ch \in DigitChars) = c
        /\ \A j \in 1..(k - 1) : SelectSeq(offered[j], LAMBDA ch : ch \in DigitChars) # c

\* 1: nine digits with the known prefix, 2: other nine digits, 3: the rest
RankOf(c) ==
    IF Len(c) = 9 /\ c[1] = "3" /\ c[2] = "4" /\ c[3] = "5" THEN 1
    ELSE IF Len(c) = 9 THEN 2
    ELSE 3

Registry == {IdHouse, IdCoach, IdSuite}

\* tried holds the digits of every offered identifier once, none empty
TriedIsTheOffered(offered, tried) ==
    /\ \A k \in DOMAIN tried : DigitsOnly(tried[k]) /\ tried[k] # <<>>
    /\ \A j, k \in DOMAIN tried : tried[j] = tried[k] => j = k
    /\ { tried[k] : k \in DOMAIN tried }
         = { SelectSeq(offered[k], LAMBDA ch : ch \in DigitChars) : k \in DOMAIN offered }
           \ {<<>>}

\* tried is in rank order, equal ranks in the order of their first offer
TriedIsRanked(offered, tried) ==
    \A j, k \in DOMAIN tried :
        j < k =>
            \/ RankOf(tried[j]) < RankOf(tried[k])
            \/ /\ RankOf(tried[j]) = RankOf(tried[k])
               /\ FirstOffer(offered, tried[j]) < FirstOffer(offered, tried[k])

\* the mapping is the one of the first registered candidate in tried
MappingIsOfFirstRegistered(resolved) ==
    IF \E k \in DOMAIN resolved.tried : resolved.tried[k] \in Registry
    THEN \E k \in DOMAIN resolved.tried :
            /\ resolved.tried[k] \in Registry
            /\ \A j \in 1..(k - 1) : resolved.tried[j] \notin Registry
            /\ resolved.identifier = resolved.tried[k]
            /\ resolved.mapping = METER_IDENTIFIER_MAP(resolved.tried[k])
            /\ resolved.mapping # NoMapping
    ELSE resolved.mapping = NoMapping

\* C21: chooseMappedMeterIdentifier reduces every offered identifier to its
\* digits, keeps the first occurrence of each, ranks them (nine digits with
\* the known prefix, other nine digits, the rest, ties in the order of first
\* occurrence), returns the mapping of the first ranked candidate that is in
\* the registry, returns no mapping exactly when none is registered, and
\* exposes the ranked list as tried in both cases.
C21_ResolverReturnsBestRegistered ==
    chosen.stage = "resolved" =>
        /\ TriedIsTheOffered(OfferedIds(chosen.extracted), chosen.resolved.tried)
        /\ TriedIsRanked(OfferedIds(chosen.extracted), chosen.resolved.tried)
        /\ MappingIsOfFirstRegistered(chosen.resolved)

\* the suite's meter is offered first and twice, the coach's meter is found
\* in the evidence and outranks it
C21_Witness ==
    /\ chosen.stage = "resolved"
    /\ chosen.extracted.meter_identifier = IdSuite
    /\ chosen.extracted.meter_identifier_candidates = <<IdUnknown, IdSuite>>
    /\ chosen.extracted.evidence = EvidenceCoach
    /\ chosen.resolved.tried = <<IdCoach, IdSuite, IdUnknown>>
    /\ chosen.resolved.mapping.unitName = "Coach"

---------------------------------------------------------------------------
(* Properties of the mapping errors of a meter photo ingest                 *)

\* the ranked candidate lists of the photos the extraction may return
TriedLists == { chooseMappedMeterIdentifier(p).tried : p \in WorkloadCoarse.photos }

\* the request r was rejected with error, wrote nothing and its response
\* carries a ranked candidate list
RejectedWithTried(r, error) ==
    (req[r].pc = "done" /\ req[r].mode = "meter_image" /\ req[r].error = error) =>
        /\ req[r].status >= 400
        /\ req[r].written = 0
        /\ req[r].tried # <<>>
        /\ req[r].tried \in TriedLists

\* C22: a meter photo ingest without manual override that ends in a mapping
\* error (no offered identifier is registered, or the identifier maps to
\* another unit than the selected one) is rejected, persists nothing and
\* returns the normalized identifier candidates that were tried.
C22_MappingErrorReturnsTried ==
    \A r \in DOMAIN req :
        /\ RejectedWithTried(r, "unknown_meter")
        /\ RejectedWithTried(r, "unit_mismatch")

\* the part that holds: an unknown identifier is answered with the list
C22_UnknownMeterReturnsTried ==
    \A r \in DOMAIN req : RejectedWithTried(r, "unknown_meter")

---------------------------------------------------------------------------
(* Properties of the bill-charge store                                      *)

\* the key of a charge: unit, utility type, bill id and period, an absent
\* bill id or date being equal to an absent one
SameChargeKey(a, b) ==
    /\ a.unit_id = b.unit_id
    /\ a.utility_type = b.utility_type
    /\ a.bill_id = b.bill_id
    /\ a.period_start = b.period_start
    /\ a.period_end = b.period_end

OneChargePerKey ==
    \A i, j \in DOMAIN charges : SameChargeKey(charges[i], charges[j]) => i = j

\* the charge the request r is storing
ChargeInHand(r) ==
    [unit_id |-> req[r].unitId,
     utility_type |-> Head(req[r].bcharges).utility_type,
     bill_id |-> Head(req[r].bcharges).bill_id,
     period_start |-> Head(req[r].bcharges).period_start,
     period_end |-> Head(req[r].bcharges).period_end,
     total_charges_cad |-> Head(req[r].bcharges).total_charges_cad]

\* a step in which the request r has stored its charge
StoresCharge(r) ==
    /\ req[r].pc \in {"charge_update", "charge_insert"}
    /\ req'[r].written = req[r].written + 1

\* storing a charge whose key exists sets that row's total and adds no row
UpsertUpdatesExisting ==
    \A r \in DOMAIN req :
        (StoresCharge(r) /\ \E i \in DOMAIN charges :
                                SameChargeKey(charges[i], ChargeInHand(r))) =>
            /\ Len(charges') = Len(charges)
            /\ \A i \in DOMAIN charges :
                  charges'[i] = IF SameChargeKey(charges[i], ChargeInHand(r))
                                THEN ChargeInHand(r)
                                ELSE charges[i]

\* C23: after any sequence of bill ingests, sequential or concurrent, the
\* same bill processed again included, utility_bill_charge holds at most one
\* row per key (unit, utility type, bill id, period start, period end, absent
\* values equal to each other), and storing a charge whose key exists updates
\* the total of that row instead of adding a row.
C23_OneChargeRowPerKey == []OneChargePerKey /\ [][UpsertUpdatesExisting]_vars

\* both requests stored a charge without bill id and period: one row, which
\* the second of them updated
C23_Witness ==
    /\ \A r \in DOMAIN req : req[r].pc = "done" /\ req[r].status = 200 /\ req[r].written = 1
    /\ Len(charges) = 1
    /\ charges[1].bill_id = NoBill
    /\ charges[1].total_charges_cad = 70
    /\ readings = <<>>

---------------------------------------------------------------------------
(* Properties of the history of readings                                    *)

\* every row stored before the step is stored after it, at its place and as
\* it was
ReadingsOnlyAppended ==
    /\ Len(readings') >= Len(readings)
    /\ \A i \in DOMAIN readings : readings'[i] = readings[i]

\* C24: readings are append-only: every step of /api/energy/ingest and of
\* /api/meter-parse leaves the meter_reading rows stored before it unchanged,
\* none updated and none deleted; a digit-corrected photo reading is stored
\* as a new row.
C24_ReadingsAppendOnly == [][ReadingsOnlyAppended]_vars

\* a photo read as 10050 was stored as 1005 behind the 1000 it follows
C24_Witness ==
    /\ Len(readings) = 2
    /\ readings[1].reading_value = 1000
    /\ readings[2].reading_value = 1005
    /\ \E r \in DOMAIN req :
          req[r].mode = "meter_image" /\ req[r].note # NoNote /\ req[r].written = 1

---------------------------------------------------------------------------
(* Properties of the review status                                          *)

Approved(rows) == SelectSeq(rows, LAMBDA row : row.parse_status = "approved")

\* the approved meter reads of a unit and utility that are stored
ApprovedReadsOf(unitId, utilityType) ==
    { i \in DOMAIN readings :
        /\ readings[i].parse_status = "approved"
        /\ readings[i].entry_type = "meter_read"
        /\ readings[i].unit_id = unitId
        /\ readings[i].utility_type = utilityType }

\* every history the normalizer may be given holds approved reads only
HistoryIsApproved ==
    \A unitId \in RentalUnits, utilityType \in ALLOWED_UTILITY_TYPES :
        \A recent \in RecentMeterReads(readings, unitId, utilityType,
                                       getRollingWindowSize(utilityType)) :
            /\ Len(recent) <= Cardinality(ApprovedReadsOf(unitId, utilityType))
            /\ \A k \in DOMAIN recent :
                  \E i \in ApprovedReadsOf(unitId, utilityType) :
                      /\ readings[i].captured_at = recent[k].captured_at
                      /\ readings[i].reading_value = recent[k].reading_value

\* a photo ingest that has normalized its reading saw no more rows than
\* there are approved reads of its meter
NormalizedFromApproved ==
    \A r \in DOMAIN req :
        (req[r].mode = "meter_image" /\ req[r].pc \in {"insert", "refresh", "respond"}) =>
            req[r].seen <= Cardinality(ApprovedReadsOf(req[r].unitId, "electricity"))

\* a step of /api/meter-parse that stores a row stores it as pending_review
ParsedRowIsPending ==
    \A r \in DOMAIN req :
        (req[r].pc = "idle" /\ req'[r].mode = "meter_parse" /\ req'[r].written = 1) =>
            /\ Len(readings') = Len(readings) + 1
            /\ readings'[Len(readings')].parse_status = "pending_review"

\* a rebuild gives the daily rows of the approved readings alone
RebuildIgnoresUnapproved ==
    report' # report =>
        report' \in { EnergyWeatherReport(Approved(readings'), ord) :
                        ord \in OrdersByCapturedAt(Approved(readings'),
                                    ApprovedMeterIds(Approved(readings'))) }

\* C25: every reading stored through /api/meter-parse has the status
\* pending_review; a reading that is not approved is never part of the
\* history the normalizer uses and gives no row of the daily series, after
\* any sequence of operations.
C25_UnapprovedReadingsStayOut ==
    /\ [](HistoryIsApproved /\ NormalizedFromApproved)
    /\ [][ParsedRowIsPending /\ RebuildIgnoresUnapproved]_vars

\* a pending read of the House meter is stored, a photo of the same meter is
\* normalized against an empty history, stored, and the rebuilt series has
\* no row
C25_Witness ==
    /\ Len(readings) = 2
    /\ readings[1].parse_status = "pending_review"
    /\ readings[1].entry_type = "meter_read"
    /\ readings[1].unit_id = "u-house"
    /\ readings[1].utility_type = "electricity"
    /\ readings[2].parse_status = "approved"
    /\ readings[2].unit_id = "u-house"
    /\ readings[2].utility_type = "electricity"
    /\ \E r \in DOMAIN req :
          /\ req[r].mode = "meter_image"
          /\ req[r].pc = "respond"
          /\ req[r].view = "rebuilt"
          /\ req[r].seen = 0
    /\ report = EmptyBag

---------------------------------------------------------------------------
(* Properties of the quantities the normalizer derives from the history     *)

CeilingPerDay(utilityType) ==
    CASE utilityType = "electricity" -> 250
      [] utilityType = "gas" -> 80
      [] utilityType = "water" -> 20

\* the days between the latest prior reading and the new capture, at least
\* one hour
DaysSinceLatest ==
    RMax(Rat(norm.capturedAt - norm.recent[1].captured_at, TicksPerDay), Rat(1, 24))

NormCalled == norm.stage \in {"normalized", "renormalized"} /\ norm.recent # <<>>

\* C26: the maximum plausible delta of a call is the daily ceiling of the
\* utility (250 electricity, 80 gas, 20 water) times the elapsed days, for
\* every elapsed time, less than a day included; the elapsed days are the
\* time from the latest prior reading to the new capture, at least 1/24 day.
C26_CeilingIsPerDayTimesElapsed ==
    NormCalled =>
        norm.ceiling = RMul(RInt(CeilingPerDay(norm.utilityType)), DaysSinceLatest)

\* the part that holds: from one day on
C26_CeilingFromOneDayOn ==
    (NormCalled /\ RLe(RInt(1), DaysSinceLatest)) =>
        norm.ceiling = RMul(RInt(CeilingPerDay(norm.utilityType)), DaysSinceLatest)

\* the ceiling of the call under one day
C26_CeilingUnderOneDay ==
    (NormCalled /\ RLt(DaysSinceLatest, RInt(1))) =>
        norm.ceiling = RInt(CeilingPerDay(norm.utilityType))

\* the rate of the interval at position p from the newest: the difference
\* of its two readings over its days, at least one hour
IntervalDelta(p) == norm.recent[p + 1].reading_value - norm.recent[p + 2].reading_value

IntervalRate(p) ==
    RDiv(RInt(IntervalDelta(p)),
         RMax(Rat(norm.recent[p + 1].captured_at - norm.recent[p + 2].captured_at,
                  TicksPerDay),
              Rat(1, 24)))

IntervalWeight(base, p) == IF base - p >= 1 THEN base - p ELSE 1

RECURSIVE WeightedRateSum(_, _)
\* the sum of rate times weight over the intervals p, p + 1, ... whose
\* readings do not decrease, the weights counted down from base
WeightedRateSum(base, p) ==
    IF p >= Len(norm.recent) - 1 THEN RInt(0)
    ELSE IF IntervalDelta(p) < 0 THEN WeightedRateSum(base, p + 1)
    ELSE RAdd(RMul(IntervalRate(p), RInt(IntervalWeight(base, p))),
              WeightedRateSum(base, p + 1))

RECURSIVE WeightSum(_, _)
WeightSum(base, p) ==
    IF p >= Len(norm.recent) - 1 THEN 0
    ELSE IF IntervalDelta(p) < 0 THEN WeightSum(base, p + 1)
    ELSE IntervalWeight(base, p) + WeightSum(base, p + 1)

\* the expected rate is the mean weighted from base, the expected delta is
\* the rate times the elapsed days
ExpectedFromWeights(base) ==
    (NormCalled /\ WeightSum(base, 0) > 0) =>
        /\ norm.forecast
        /\ norm.rate = RDiv(WeightedRateSum(base, 0), RInt(WeightSum(base, 0)))
        /\ norm.expected = RMul(norm.rate, DaysSinceLatest)

\* C27: the expected daily rate is the weighted mean of the rates of the
\* consecutive intervals of the history, the interval at position p from the
\* newest among n intervals weighing max(n - p, 1), and the expected delta is
\* that rate times the elapsed days.
C27_RateWeightedByIntervalCount ==
    norm.stage = "normalized" => ExpectedFromWeights(Len(norm.recent) - 1)

\* what the call computes: the weights count down from the number of rows
C27_RateWeightedByRowCount ==
    norm.stage = "normalized" => ExpectedFromWeights(Len(norm.recent))

---------------------------------------------------------------------------
(* Properties of the stored daily series                                    *)

NoIngestInProgress == \A r \in DOMAIN req : req[r].pc \in {"idle", "done"}

\* the daily rows a rebuild from the stored readings can give
Recomputed ==
    { EnergyWeatherReport(readings, ord) :
        ord \in OrdersByCapturedAt(readings, ApprovedMeterIds(readings)) }

\* C28: whenever no ingest request is in progress, the stored daily series
\* is the apportionment recomputed from the approved readings now stored,
\* without stale or missing rows, after any sequence of successful and failed
\* ingest requests.
C28_SeriesFreshWhenIdle == NoIngestInProgress => report \in Recomputed

\* the part that holds: after an ingest answered with success
C28_SeriesFreshAfterSuccess ==
    (NoIngestInProgress /\ \E r \in DOMAIN req :
        req[r].pc = "done" /\ req[r].status = 200 /\ req[r].mode # "meter_parse") =>
            report \in Recomputed

---------------------------------------------------------------------------
(* Properties of a failed bill ingest                                       *)

\* the bill ingest r was answered with an error raised by one of its inserts
\* or upserts: it got past the extraction and never reached the refresh
BillInsertFailed(r) ==
    /\ req[r].pc = "done"
    /\ req[r].mode = "bill"
    /\ req[r].error = "db_error"
    /\ req[r].extractOk
    /\ req[r].view \in {"none", "stale"}

\* C29: a bill ingest is all-or-nothing: when an insert of a reading or an
\* upsert of a charge of the request fails, none of the readings and charges
\* of that request is stored when the error response is returned.
C29_FailedBillStoresNothing ==
    \A r \in DOMAIN req : BillInsertFailed(r) => req[r].written = 0

---------------------------------------------------------------------------
(* Properties of the days the meter-derived rows cover                      *)

FirstReadDay(S) ==
    CHOOSE d \in { DayOf(readings[i].captured_at) : i \in S } :
        \A i \in S : d <= DayOf(readings[i].captured_at)

LastReadDay(S) ==
    CHOOSE d \in { DayOf(readings[i].captured_at) : i \in S } :
        \A i \in S : d >= DayOf(readings[i].captured_at)

\* the number of meter-derived rows of the meter on a day
MeterRowCount(unitId, utilityType, day) ==
    BagCopies(daily.meter,
              { row \in BagToSet(daily.meter) :
                  /\ row.unit_id = unitId
                  /\ row.utility_type = utilityType
                  /\ row.day = day })

\* one row on each day after lo up to hi, none on another day
CoversOnce(unitId, utilityType, lo, hi) ==
    \A day \in (-1)..(MaxViewDay + 1) :
        MeterRowCount(unitId, utilityType, day) = IF lo < day /\ day <= hi THEN 1 ELSE 0

\* C30: for every unit and utility type with two or more approved meter
\* reads, the meter-derived rows of the daily series cover every calendar
\* day after the day of the earliest read up to the day of the latest read
\* exactly once, without overlap and without gap, whatever the order in
\* which the readings were ingested.
C30_MeterRowsCoverDaysOnce ==
    daily.stage = "rebuilt" =>
        \A unitId \in RentalUnits, utilityType \in ALLOWED_UTILITY_TYPES :
            Cardinality(ApprovedReadsOf(unitId, utilityType)) >= 2 =>
                CoversOnce(unitId, utilityType,
                           FirstReadDay(ApprovedReadsOf(unitId, utilityType)),
                           LastReadDay(ApprovedReadsOf(unitId, utilityType)))

\* three reads of the House meter ingested latest first: day MaxViewDay, day
\* 0, day 1; the rows cover day 1 to day MaxViewDay
C30_Witness ==
    /\ daily.stage = "rebuilt"
    /\ Len(readings) = 3
    /\ ApprovedReadsOf("u-house", "electricity") = {1, 2, 3}
    /\ readings[1].captured_at = MaxViewDay * TicksPerDay
    /\ readings[2].captured_at = 0
    /\ readings[3].captured_at = TicksPerDay
    /\ BagCardinality(daily.meter) = MaxViewDay

====
